---- MODULE Spec2Model ----
(***************************************************************************)
(* Request orchestration core of the Polygot code translator               *)
(* (src/src/extension.ts, third revision in the file, lines 818-1642):     *)
(* language-pair registry, health cache, connectivity probe, response      *)
(* normalisation and the retry handlers of translateCode.                  *)
(*                                                                         *)
(* Strings that the code transforms are sequences of characters; times     *)
(* are milliseconds.                                                      *)
(***************************************************************************)
EXTENDS Integers, Sequences, FiniteSets, TLC

\* ------------------------------------------------------------------ bounds
\* latest instant a free clock step may lead to (timers may run past it)
MaxTime == 900000
\* saturation value of the per-call request counters
MaxCount == 3
\* longest body of a fenced payload
MaxBody == 4

\* ------------------------------------------------------- program constants
API_HEALTH_CHECK_INTERVAL == 5 * 60 * 1000
timeoutMs == 10000
maxRetries == 1
MAX_CODE_LENGTH == 10000
DefaultRetryCount == 1
RequestTimeout == 10000

\* Date.now() when the extension host starts: any instant later than one
\* caching window after the epoch
StartTime == 2 * API_HEALTH_CHECK_INTERVAL

\* the translateCode calls a run can hold
AllCalls == {1, 2}

\* ------------------------------------------------------------- the registry
SUPPORTED_LANGUAGE_PAIRS == <<
    [from |-> "python", to |-> "javascript"],
    [from |-> "javascript", to |-> "python"],
    [from |-> "python", to |-> "java"],
    [from |-> "java", to |-> "python"],
    [from |-> "python", to |-> "typescript"],
    [from |-> "typescript", to |-> "python"],
    [from |-> "python", to |-> "c++"],
    [from |-> "c++", to |-> "python"],
    [from |-> "python", to |-> "c#"],
    [from |-> "c#", to |-> "python"],
    [from |-> "python", to |-> "ruby"],
    [from |-> "ruby", to |-> "python"],
    [from |-> "python", to |-> "go"],
    [from |-> "go", to |-> "python"],
    [from |-> "python", to |-> "php"],
    [from |-> "php", to |-> "python"],
    [from |-> "python", to |-> "perl"],
    [from |-> "perl", to |-> "python"],
    [from |-> "python", to |-> "fortran"],
    [from |-> "fortran", to |-> "python"],
    [from |-> "python", to |-> "pascal"],
    [from |-> "pascal", to |-> "python"],
    [from |-> "javascript", to |-> "java"],
    [from |-> "java", to |-> "javascript"],
    [from |-> "javascript", to |-> "typescript"],
    [from |-> "typescript", to |-> "javascript"],
    [from |-> "javascript", to |-> "c++"],
    [from |-> "c++", to |-> "javascript"],
    [from |-> "javascript", to |-> "c#"],
    [from |-> "c#", to |-> "javascript"],
    [from |-> "javascript", to |-> "dart"],
    [from |-> "dart", to |-> "javascript"],
    [from |-> "javascript", to |-> "html"],
    [from |-> "html", to |-> "javascript"],
    [from |-> "javascript", to |-> "php"],
    [from |-> "php", to |-> "javascript"],
    [from |-> "php", to |-> "typescript"],
    [from |-> "typescript", to |-> "php"],
    [from |-> "java", to |-> "c++"],
    [from |-> "c++", to |-> "java"],
    [from |-> "java", to |-> "c#"],
    [from |-> "c#", to |-> "java"],
    [from |-> "java", to |-> "go"],
    [from |-> "go", to |-> "java"],
    [from |-> "java", to |-> "kotlin"],
    [from |-> "kotlin", to |-> "java"],
    [from |-> "java", to |-> "scala"],
    [from |-> "scala", to |-> "java"],
    [from |-> "java", to |-> "cobol"],
    [from |-> "cobol", to |-> "java"],
    [from |-> "c++", to |-> "c"],
    [from |-> "c", to |-> "c++"],
    [from |-> "c++", to |-> "rust"],
    [from |-> "rust", to |-> "c++"],
    [from |-> "c++", to |-> "c#"],
    [from |-> "c#", to |-> "c++"],
    [from |-> "css", to |-> "scss"],
    [from |-> "scss", to |-> "css"],
    [from |-> "typescript", to |-> "dart"],
    [from |-> "dart", to |-> "typescript"],
    [from |-> "rust", to |-> "go"],
    [from |-> "go", to |-> "rust"],
    [from |-> "flask", to |-> "express"],
    [from |-> "express", to |-> "flask"],
    [from |-> "django", to |-> "spring"],
    [from |-> "spring", to |-> "django"],
    [from |-> "vue", to |-> "react"],
    [from |-> "react", to |-> "vue"],
    [from |-> "jsx", to |-> "tsx"],
    [from |-> "tsx", to |-> "jsx"],
    [from |-> "vue", to |-> "svelte"],
    [from |-> "svelte", to |-> "vue"],
    [from |-> "angular", to |-> "react"],
    [from |-> "react", to |-> "angular"],
    [from |-> "swift", to |-> "kotlin"],
    [from |-> "kotlin", to |-> "swift"]
>>

\* SUPPORTED_LANGUAGE_PAIRS.some(pair => pair.from === fromLang && pair.to === toLang)
isLanguagePairSupported(fromLang, toLang) ==
    \E i \in 1..Len(SUPPORTED_LANGUAGE_PAIRS) :
        /\ SUPPORTED_LANGUAGE_PAIRS[i].from = fromLang
        /\ SUPPORTED_LANGUAGE_PAIRS[i].to = toLang

\* .filter(pair => pair.from === sourceLang).map(pair => pair.to) into
\* new Set(...): the rows of the source whose target no earlier row of the
\* source has
FirstRows(sourceLang) ==
    {i \in 1..Len(SUPPORTED_LANGUAGE_PAIRS) :
        /\ SUPPORTED_LANGUAGE_PAIRS[i].from = sourceLang
        /\ \A j \in 1..(i - 1) :
             ~ /\ SUPPORTED_LANGUAGE_PAIRS[j].from = sourceLang
               /\ SUPPORTED_LANGUAGE_PAIRS[j].to = SUPPORTED_LANGUAGE_PAIRS[i].to}

\* Array.from(new Set(...)): the targets in table order, each once
getSupportedTargetLanguagesButFirst(sourceLang) ==
    LET rows == FirstRows(sourceLang) IN
    [k \in 1..(Cardinality(rows) - 1) |->
        SUPPORTED_LANGUAGE_PAIRS[CHOOSE i \in rows : Cardinality({j \in rows : j <= i}) = k + 1].to]
getSupportedTargetLanguages(sourceLang) ==
    LET rows == FirstRows(sourceLang) IN
    [k \in 1..Cardinality(rows) |->
        SUPPORTED_LANGUAGE_PAIRS[CHOOSE i \in rows : Cardinality({j \in rows : j <= i}) = k].to]

\* ------------------------------------------------------------------ strings
Undefined == <<"undefined">>
Falsy(s) == s = Undefined \/ s = <<>>

NL == "\n"
\* the back-quote character (code 96), which a TLA+ string cannot hold
BT == "bq"
IsSpace(ch) == ch \in {" ", NL, "\t", "\r"}

RECURSIVE Drop(_, _)
Drop(s, n) == IF n = 0 \/ s = <<>> THEN s ELSE Drop(Tail(s), n - 1)

StartsWithFence(s) == Len(s) >= 3 /\ s[1] = BT /\ s[2] = BT /\ s[3] = BT

\* index of the first line break at position >= i, 0 when there is none
RECURSIVE FirstNL(_, _)
FirstNL(s, i) ==
    IF i > Len(s) THEN 0 ELSE IF s[i] = NL THEN i ELSE FirstNL(s, i + 1)

\* .replace(/^```[\s\S]*?\n/, ''): the three back-quotes at the very start and
\* everything up to and including the first line break after them
StripOpeningGreedy(s) ==
    IF StartsWithFence(s) /\ FirstNL(s, 4) # 0
    THEN Drop(s, CHOOSE i \in 4..Len(s) : s[i] = NL /\ \A j \in (i + 1)..Len(s) : s[j] # NL)
    ELSE s
StripOpening(s) ==
    IF StartsWithFence(s) /\ FirstNL(s, 4) # 0 THEN Drop(s, FirstNL(s, 4)) ELSE s

\* .replace(/\n```$/, ''): a line break and three back-quotes at the very end
StripClosing(s) ==
    LET n == Len(s) IN
    IF n >= 4 /\ s[n - 3] = NL /\ s[n - 2] = BT /\ s[n - 1] = BT /\ s[n] = BT
    THEN SubSeq(s, 1, n - 4) ELSE s

RECURSIVE TrimStart(_)
TrimStart(s) == IF s # <<>> /\ IsSpace(s[1]) THEN TrimStart(Tail(s)) ELSE s

RECURSIVE TrimEnd(_)
TrimEnd(s) ==
    IF s # <<>> /\ IsSpace(s[Len(s)]) THEN TrimEnd(SubSeq(s, 1, Len(s) - 1)) ELSE s

Trim(s) == TrimEnd(TrimStart(s))

\* codeWithoutMarkdown
Normalize(translatedCode) == Trim(StripClosing(StripOpening(translatedCode)))

\* parseInt(text, 10) of a header value: the leading decimal digits, NaN when
\* there is none
NaN == -1
DigitValue(ch) ==
    CASE ch = "0" -> 0 [] ch = "1" -> 1 [] ch = "2" -> 2 [] ch = "3" -> 3
      [] ch = "4" -> 4 [] ch = "5" -> 5 [] ch = "6" -> 6 [] ch = "7" -> 7
      [] ch = "8" -> 8 [] ch = "9" -> 9 [] OTHER -> NaN

RECURSIVE ParseDigits(_, _)
ParseDigits(s, acc) ==
    IF s = <<>> \/ DigitValue(s[1]) = NaN THEN acc
    ELSE ParseDigits(Tail(s), acc * 10 + DigitValue(s[1]))

parseInt(s) ==
    LET t == TrimStart(s) IN
    IF t = <<>> \/ DigitValue(t[1]) = NaN THEN NaN ELSE ParseDigits(t, 0)

\* ---------------------------------------------------------------- file names
\* a file name is the sequence of its characters
LowerCase(ch) ==
    CASE ch = "A" -> "a" [] ch = "B" -> "b" [] ch = "C" -> "c" [] ch = "D" -> "d"
      [] ch = "E" -> "e" [] ch = "F" -> "f" [] ch = "G" -> "g" [] ch = "H" -> "h"
      [] ch = "I" -> "i" [] ch = "J" -> "j" [] ch = "K" -> "k" [] ch = "L" -> "l"
      [] ch = "M" -> "m" [] ch = "N" -> "n" [] ch = "O" -> "o" [] ch = "P" -> "p"
      [] ch = "Q" -> "q" [] ch = "R" -> "r" [] ch = "S" -> "s" [] ch = "T" -> "t"
      [] ch = "U" -> "u" [] ch = "V" -> "v" [] ch = "W" -> "w" [] ch = "X" -> "x"
      [] ch = "Y" -> "y" [] ch = "Z" -> "z" [] OTHER -> ch

toLowerCase(s) == [i \in 1..Len(s) |-> LowerCase(s[i])]

endsWith(s, suffix) ==
    /\ Len(s) >= Len(suffix)
    /\ SubSeq(s, Len(s) - Len(suffix) + 1, Len(s)) = suffix

\* s.lastIndexOf(ch), counted from 0; -1 when ch does not occur
RECURSIVE LastIndexFrom(_, _, _)
LastIndexFrom(s, ch, i) ==
    IF i = 0 THEN -1 ELSE IF s[i] = ch THEN i - 1 ELSE LastIndexFrom(s, ch, i - 1)

lastIndexOf(s, ch) == LastIndexFrom(s, ch, Len(s))

\* s.substring(start): a negative start counts as 0
substring(s, start) == SubSeq(s, (IF start < 0 THEN 0 ELSE start) + 1, Len(s))

\* what a table lookup or getLanguageFromFileName yields for "no language"
NoLanguage == "undefined"

EXTENSION_TO_LANGUAGE == <<
    [key |-> <<".", "p", "y">>, language |-> "python"],
    [key |-> <<".", "j", "s">>, language |-> "javascript"],
    [key |-> <<".", "j", "s", "x">>, language |-> "jsx"],
    [key |-> <<".", "t", "s">>, language |-> "typescript"],
    [key |-> <<".", "t", "s", "x">>, language |-> "tsx"],
    [key |-> <<".", "j", "a", "v", "a">>, language |-> "java"],
    [key |-> <<".", "k", "t">>, language |-> "kotlin"],
    [key |-> <<".", "s", "c", "a", "l", "a">>, language |-> "scala"],
    [key |-> <<".", "c">>, language |-> "c"],
    [key |-> <<".", "h">>, language |-> "c"],
    [key |-> <<".", "c", "p", "p">>, language |-> "c++"],
    [key |-> <<".", "h", "p", "p">>, language |-> "c++"],
    [key |-> <<".", "c", "c">>, language |-> "c++"],
    [key |-> <<".", "c", "s">>, language |-> "c#"],
    [key |-> <<".", "g", "o">>, language |-> "go"],
    [key |-> <<".", "r", "b">>, language |-> "ruby"],
    [key |-> <<".", "p", "h", "p">>, language |-> "php"],
    [key |-> <<".", "p", "l">>, language |-> "perl"],
    [key |-> <<".", "p", "m">>, language |-> "perl"],
    [key |-> <<".", "h", "t", "m", "l">>, language |-> "html"],
    [key |-> <<".", "h", "t", "m">>, language |-> "html"],
    [key |-> <<".", "c", "s", "s">>, language |-> "css"],
    [key |-> <<".", "s", "c", "s", "s">>, language |-> "scss"],
    [key |-> <<".", "s", "w", "i", "f", "t">>, language |-> "swift"],
    [key |-> <<".", "d", "a", "r", "t">>, language |-> "dart"],
    [key |-> <<".", "r", "s">>, language |-> "rust"],
    [key |-> <<".", "v", "u", "e">>, language |-> "vue"],
    [key |-> <<".", "s", "v", "e", "l", "t", "e">>, language |-> "svelte"],
    [key |-> <<".", "c", "b", "l">>, language |-> "cobol"],
    [key |-> <<".", "c", "o", "b">>, language |-> "cobol"],
    [key |-> <<".", "f">>, language |-> "fortran"],
    [key |-> <<".", "f", "o", "r">>, language |-> "fortran"],
    [key |-> <<".", "f", "9", "0">>, language |-> "fortran"],
    [key |-> <<".", "p", "a", "s">>, language |-> "pascal"],
    [key |-> <<".", "p", "p">>, language |-> "pascal"],
    [key |-> <<"p", "o", "m", ".", "x", "m", "l">>, language |-> "spring"],
    [key |-> <<"b", "u", "i", "l", "d", ".", "g", "r", "a", "d", "l", "e">>, language |-> "spring"],
    [key |-> <<"b", "u", "i", "l", "d", ".", "g", "r", "a", "d", "l", "e", ".", "k", "t", "s">>, language |-> "spring"],
    [key |-> <<"a", "p", "p", "l", "i", "c", "a", "t", "i", "o", "n", ".", "p", "r", "o", "p", "e", "r", "t", "i", "e", "s">>, language |-> "spring"],
    [key |-> <<"a", "p", "p", "l", "i", "c", "a", "t", "i", "o", "n", ".", "y", "m", "l">>, language |-> "spring"],
    [key |-> <<"a", "p", "p", "l", "i", "c", "a", "t", "i", "o", "n", ".", "y", "a", "m", "l">>, language |-> "spring"],
    [key |-> <<"r", "e", "q", "u", "i", "r", "e", "m", "e", "n", "t", "s", ".", "t", "x", "t">>, language |-> "flask"],
    [key |-> <<"a", "p", "p", ".", "p", "y">>, language |-> "flask"],
    [key |-> <<"m", "a", "n", "a", "g", "e", ".", "p", "y">>, language |-> "django"],
    [key |-> <<"u", "r", "l", "s", ".", "p", "y">>, language |-> "django"],
    [key |-> <<"s", "e", "t", "t", "i", "n", "g", "s", ".", "p", "y">>, language |-> "django"],
    [key |-> <<"p", "a", "c", "k", "a", "g", "e", ".", "j", "s", "o", "n">>, language |-> "express"],
    [key |-> <<"s", "e", "r", "v", "e", "r", ".", "j", "s">>, language |-> "express"],
    [key |-> <<"a", "p", "p", ".", "j", "s">>, language |-> "express"]
>>

frameworkFiles == <<
    <<"p", "o", "m", ".", "x", "m", "l">>,
    <<"b", "u", "i", "l", "d", ".", "g", "r", "a", "d", "l", "e">>,
    <<"b", "u", "i", "l", "d", ".", "g", "r", "a", "d", "l", "e", ".", "k", "t", "s">>,
    <<"a", "p", "p", "l", "i", "c", "a", "t", "i", "o", "n", ".", "p", "r", "o", "p", "e", "r", "t", "i", "e", "s">>,
    <<"a", "p", "p", "l", "i", "c", "a", "t", "i", "o", "n", ".", "y", "m", "l">>,
    <<"a", "p", "p", "l", "i", "c", "a", "t", "i", "o", "n", ".", "y", "a", "m", "l">>,
    <<"r", "e", "q", "u", "i", "r", "e", "m", "e", "n", "t", "s", ".", "t", "x", "t">>,
    <<"a", "p", "p", ".", "p", "y">>,
    <<"m", "a", "n", "a", "g", "e", ".", "p", "y">>,
    <<"u", "r", "l", "s", ".", "p", "y">>,
    <<"s", "e", "t", "t", "i", "n", "g", "s", ".", "p", "y">>,
    <<"p", "a", "c", "k", "a", "g", "e", ".", "j", "s", "o", "n">>,
    <<"s", "e", "r", "v", "e", "r", ".", "j", "s">>,
    <<"a", "p", "p", ".", "j", "s">>
>>

\* EXTENSION_TO_LANGUAGE[key], NoLanguage when the table has no such key
RECURSIVE LookupFrom(_, _)
LookupFrom(key, i) ==
    IF i > Len(EXTENSION_TO_LANGUAGE) THEN NoLanguage
    ELSE IF EXTENSION_TO_LANGUAGE[i].key = key THEN EXTENSION_TO_LANGUAGE[i].language
    ELSE LookupFrom(key, i + 1)

Lookup(key) == LookupFrom(key, 1)

\* lines 1452-1456: the first framework file the lowered name ends with, 0
\* when there is none
RECURSIVE FrameworkFrom(_, _)
FrameworkFrom(fileNameLower, i) ==
    IF i > Len(frameworkFiles) THEN 0
    ELSE IF endsWith(fileNameLower, frameworkFiles[i]) THEN i
    ELSE FrameworkFrom(fileNameLower, i + 1)

FrameworkFile(fileNameLower) == FrameworkFrom(fileNameLower, 1)

\* lines 1440-1467
getLanguageFromFileName(fileName) ==
    LET fileNameLower == toLowerCase(fileName)
        file == FrameworkFile(fileNameLower)
        extension == substring(fileName, lastIndexOf(fileName, "."))
        byExtension == Lookup(toLowerCase(extension))
    IN  IF file # 0 THEN Lookup(frameworkFiles[file])
        ELSE IF byExtension # NoLanguage THEN byExtension
        ELSE IF endsWith(fileName, <<".", "v", "u", "e">>) THEN "vue"
        ELSE IF endsWith(fileName, <<".", "s", "v", "e", "l", "t", "e">>) THEN "svelte"
        ELSE IF endsWith(fileName, <<".", "j", "s", "x">>) THEN "jsx"
        ELSE IF endsWith(fileName, <<".", "t", "s", "x">>) THEN "tsx"
        ELSE NoLanguage

\* ------------------------------------------------------ axios request model
\* What the network can answer to a request: an HTTP response or a transport
\* failure.  status = 0 stands for "no response".
Response(status, code, message, retryAfter) ==
    [kind |-> "response", status |-> status, translated_code |-> code,
     message |-> message, retryAfter |-> retryAfter,
     errcode |-> "", hasRequest |-> TRUE]

Failure(errcode, hasRequest) ==
    [kind |-> "failure", status |-> 0, translated_code |-> Undefined,
     message |-> "", retryAfter |-> Undefined,
     errcode |-> errcode, hasRequest |-> hasRequest]

\* error values: AxiosError (isAxios) or a plain Error whose message is the
\* text `text` behind `wraps` 'Translation failed: ' prefixes
AxiosError(errcode, ev) ==
    [isAxios |-> TRUE, code |-> errcode,
     hasResponse |-> ev.kind = "response", status |-> ev.status,
     dataMessage |-> ev.message, retryAfter |-> ev.retryAfter,
     hasRequest |-> ev.hasRequest, text |-> "axios", wraps |-> 0]

PlainError(text, wraps) ==
    [isAxios |-> FALSE, code |-> "", hasResponse |-> FALSE, status |-> 0,
     dataMessage |-> "", retryAfter |-> Undefined, hasRequest |-> FALSE,
     text |-> text, wraps |-> wraps]

NoError == PlainError("", 0)

\* validateStatus: (status) => status < 500
validateStatusPostBelow400(status) == status < 400
validateStatusPost(status) == status < 500
\* validateStatus: () => true
validateStatusAny(status) == TRUE

\* axios settle(): a response resolves when validateStatus accepts it and
\* rejects with ERR_BAD_REQUEST / ERR_BAD_RESPONSE otherwise; a transport
\* failure rejects with its code
AxiosSettle(ev, accepts) ==
    IF ev.kind = "response"
    THEN IF accepts
         THEN [ok |-> TRUE, response |-> ev, error |-> NoError]
         ELSE [ok |-> FALSE, response |-> ev,
               error |-> AxiosError(IF ev.status >= 500 THEN "ERR_BAD_RESPONSE"
                                    ELSE "ERR_BAD_REQUEST", ev)]
    ELSE [ok |-> FALSE, response |-> ev, error |-> AxiosError(ev.errcode, ev)]

\* ------------------------------------------------- translateCode's handlers
Return(value) ==
    [type |-> "return", value |-> value, error |-> NoError, delay |-> 0, handler |-> "try"]
Throw(error, handler) ==
    [type |-> "throw", value |-> <<>>, error |-> error, delay |-> 0, handler |-> handler]
Retry(delay, handler) ==
    [type |-> "retry", value |-> <<>>, error |-> NoError, delay |-> delay, handler |-> handler]
Ask(handler) ==
    [type |-> "ask", value |-> <<>>, error |-> NoError, delay |-> 0, handler |-> handler]

RECURSIVE Pow2(_)
Pow2(n) == IF n <= 0 THEN 1 ELSE 2 * Pow2(n - 1)

Min(a, b) == IF a <= b THEN a ELSE b

\* parseInt(headers['retry-after'] || '5', 10) * 1000
retryAfterMs(header) ==
    LET n == parseInt(IF Falsy(header) THEN <<"5">> ELSE header)
    IN  IF n = NaN THEN NaN ELSE n * 1000

\* !codeWithoutMarkdown, line 1269
BlankNever(codeWithoutMarkdown) == FALSE
Blank(codeWithoutMarkdown) == codeWithoutMarkdown = <<>>

\* lines 1259-1282: the body of the inner try once the POST has resolved
TryBody(response) ==
    IF response.status >= 200 /\ response.status < 300
    THEN IF ~Falsy(response.translated_code)
         THEN IF Blank(Normalize(response.translated_code))
              THEN Throw(PlainError("Received empty translation from the server", 0), "try")
              ELSE Return(Normalize(response.translated_code))
         ELSE Throw(PlainError("Invalid response format from translation service: Missing translated_code", 0), "try")
    ELSE Throw(PlainError("Translation failed: <errorMessage>", 0), "try")

\* error.code === 'ECONNABORTED' || error.response?.status === 504
IsTimeoutOrServerError(error) ==
    error.code = "ECONNABORTED" \/ (error.hasResponse /\ error.status >= 500)
IsTimeout(error) ==
    error.code = "ECONNABORTED" \/ (error.hasResponse /\ error.status = 504)

\* the wait of line 1291
InnerRetryDelayHalved == 1000 \div 2
InnerRetryDelay == 1000

\* retryCount > 0, lines 1289 and 1305
BudgetLeftAlways(retryCount) == TRUE
BudgetLeft(retryCount) == retryCount > 0

\* lines 1283-1325: the inner catch
InnerCatch(error, retryCount) ==
    IF error.isAxios
    THEN IF IsTimeout(error)
         THEN IF BudgetLeft(retryCount)
              THEN Retry(InnerRetryDelay, "inner")
              ELSE Throw(PlainError("Translation service is currently unavailable. The request timed out.", 0), "inner")
         ELSE IF error.hasResponse
         THEN IF error.status = 429
              THEN IF BudgetLeft(retryCount)
                   THEN Retry(retryAfterMs(error.retryAfter), "inner")
                   ELSE Throw(PlainError("Translation service rate limit exceeded. Please try again later.", 0), "inner")
              ELSE Throw(PlainError("Translation failed (<status>): <message>", 0), "inner")
         ELSE IF error.hasRequest
         THEN Throw(PlainError("No response received from the translation service. Please check your connection.", 0), "inner")
         ELSE Throw(PlainError("Failed to send translation request: <message>", 0), "inner")
    ELSE Throw(PlainError(error.text, error.wraps + 1), "inner")

\* lines 1326-1435: the outer catch
OuterCatch(error, retryCount, jitter) ==
    IF error.isAxios
    THEN IF IsTimeout(error)
         THEN IF retryCount > 0
              THEN Retry(Min(1000 * Pow2(maxRetries - retryCount), 30000) + jitter, "outer")
              ELSE Ask("outer")
         ELSE IF error.hasResponse
         THEN IF error.status = 429
              THEN IF retryCount > 0
                   THEN Retry(retryAfterMs(error.retryAfter), "outer")
                   ELSE Throw(PlainError("Translation service rate limit exceeded. Please try again later.", 0), "outer")
              ELSE IF error.status = 413
              THEN Throw(PlainError("The code is too large to translate. Please reduce the size and try again.", 0), "outer")
              ELSE Throw(PlainError("Translation failed (<status>): <message>", 0), "outer")
         ELSE IF error.hasRequest
         THEN IF retryCount > 0 /\ error.code \in {"ECONNRESET", "ETIMEDOUT", "ENOTFOUND"}
              THEN Retry(1000 * Pow2(maxRetries - retryCount), "outer")
              ELSE IF error.code = "ENOTFOUND"
              THEN Throw(PlainError("Could not connect to the translation service. Please check your internet connection.", 0), "outer")
              ELSE IF error.code = "ECONNRESET"
              THEN Throw(PlainError("Connection to the translation service was reset. Please try again.", 0), "outer")
              ELSE Throw(PlainError("No response received from the translation service. Please check your connection.", 0), "outer")
         ELSE Throw(PlainError("Failed to send translation request: <message>", 0), "outer")
    ELSE Throw(PlainError(error.text, error.wraps + 1), "outer")

\* an exception raised inside the inner try passes the inner catch and, when
\* that one throws, the outer catch
HandleUncaught(decision, retryCount, jitter) == decision
Handle(decision, retryCount, jitter) ==
    IF decision.type # "throw" THEN decision
    ELSE LET inner == InnerCatch(decision.error, retryCount) IN
         IF inner.type # "throw" THEN inner
         ELSE OuterCatch(inner.error, retryCount, jitter)

\* lines 1241-1253 with the handlers: what one POST attempt decides
PostDecision(ev, retryCount, jitter) ==
    LET settled == AxiosSettle(ev, validateStatusPost(ev.status)) IN
    Handle(IF settled.ok THEN TryBody(settled.response)
           ELSE Throw(settled.error, "axios"),
           retryCount, jitter)

\* -------------------------------------------------------------------- state
VARIABLES
    now,            \* Date.now()
    isApiHealthy,   \* module state, line 821
    lastApiCheck,   \* module state, line 822
    call            \* per translateCode call: its position and its locals

vars == <<now, isApiHealthy, lastApiCheck, call>>

FencedX == <<BT, BT, BT, "p", "y", NL, "x", NL, BT, BT, BT>>
FencedEmpty == <<BT, BT, BT, NL, NL, BT, BT, BT>>
Payloads == {Undefined, <<>>, FencedX, FencedEmpty, <<" ", NL>>, <<"y", " ">>}

\* what the translate endpoint can answer before the deadline
PostEvents ==
    {Response(200, p, "", Undefined) : p \in Payloads}
    \cup {Response(s, Undefined, "", Undefined) : s \in {204, 400, 413, 500, 504}}
    \cup {Response(429, Undefined, "", h) : h \in {Undefined, <<"2">>}}
    \cup {Failure(e, TRUE) : e \in {"ECONNRESET", "ENOTFOUND", "ETIMEDOUT"}}
    \cup {Failure("ERR_INVALID_URL", FALSE)}

\* what ends a POST at its deadline: the axios timeout or the abort timer
DeadlineEvents == {Failure("ECONNABORTED", TRUE), Failure("ERR_CANCELED", TRUE)}

HealthEvents ==
    {Response(s, Undefined, "", Undefined) : s \in {200, 204, 503}}
    \cup {Failure("ECONNREFUSED", TRUE)}

ProbeEvents ==
    {Response(s, Undefined, "", Undefined) : s \in {200, 404}}
    \cup {Failure("ECONNREFUSED", TRUE)}

Answers == {"Try Anyway", "Check Again", "Open Network Settings", "Cancel", "undefined"}

JitterValues == {0, 999}

CodeLengths == {MAX_CODE_LENGTH, MAX_CODE_LENGTH + 1}
RequestPairs == {<<"python", "javascript">>, <<"javascript", "rust">>}
Requests == CodeLengths \X RequestPairs

\* the environment of one run: the requests made and what the network and
\* the user may answer
FullEnv ==
    [requests |-> Requests, post |-> PostEvents, atDeadline |-> DeadlineEvents,
     health |-> HealthEvents, probe |-> ProbeEvents, answers |-> Answers]

\* the environment used when two calls run concurrently
ConcEnv ==
    [requests |-> {<<MAX_CODE_LENGTH, <<"python", "javascript">>>>},
     post |-> {Response(200, FencedX, "", Undefined),
               Response(504, Undefined, "", Undefined),
               Failure("ECONNRESET", TRUE)},
     atDeadline |-> {},
     health |-> {Response(s, Undefined, "", Undefined) : s \in {200, 503}},
     probe |-> {Failure("ECONNREFUSED", TRUE)},
     answers |-> {"Try Anyway", "Check Again", "Cancel"}]

\* the README's section 'Supported File Extensions': each extension with the
\* languages of the heading it is listed under
README_EXTENSIONS == <<
    [extension |-> <<".", "p", "y">>, languages |-> {"python"}],
    [extension |-> <<".", "j", "s">>, languages |-> {"javascript", "typescript"}],
    [extension |-> <<".", "j", "s", "x">>, languages |-> {"javascript", "typescript"}],
    [extension |-> <<".", "t", "s">>, languages |-> {"javascript", "typescript"}],
    [extension |-> <<".", "t", "s", "x">>, languages |-> {"javascript", "typescript"}],
    [extension |-> <<".", "j", "a", "v", "a">>, languages |-> {"java", "kotlin", "scala"}],
    [extension |-> <<".", "k", "t">>, languages |-> {"java", "kotlin", "scala"}],
    [extension |-> <<".", "s", "c", "a", "l", "a">>, languages |-> {"java", "kotlin", "scala"}],
    [extension |-> <<".", "c">>, languages |-> {"c", "c++"}],
    [extension |-> <<".", "h">>, languages |-> {"c", "c++"}],
    [extension |-> <<".", "c", "p", "p">>, languages |-> {"c", "c++"}],
    [extension |-> <<".", "h", "p", "p">>, languages |-> {"c", "c++"}],
    [extension |-> <<".", "c", "c">>, languages |-> {"c", "c++"}],
    [extension |-> <<".", "c", "s">>, languages |-> {"c#"}],
    [extension |-> <<".", "g", "o">>, languages |-> {"go"}],
    [extension |-> <<".", "r", "b">>, languages |-> {"ruby"}],
    [extension |-> <<".", "p", "h", "p">>, languages |-> {"php"}],
    [extension |-> <<".", "p", "l">>, languages |-> {"perl"}],
    [extension |-> <<".", "p", "m">>, languages |-> {"perl"}],
    [extension |-> <<".", "r", "s">>, languages |-> {"rust"}],
    [extension |-> <<".", "s", "w", "i", "f", "t">>, languages |-> {"swift"}],
    [extension |-> <<".", "d", "a", "r", "t">>, languages |-> {"dart"}],
    [extension |-> <<".", "c", "b", "l">>, languages |-> {"cobol"}],
    [extension |-> <<".", "c", "o", "b">>, languages |-> {"cobol"}],
    [extension |-> <<".", "f">>, languages |-> {"fortran"}],
    [extension |-> <<".", "f", "o", "r">>, languages |-> {"fortran"}],
    [extension |-> <<".", "f", "9", "0">>, languages |-> {"fortran"}],
    [extension |-> <<".", "p", "a", "s">>, languages |-> {"pascal"}],
    [extension |-> <<".", "p", "p">>, languages |-> {"pascal"}],
    [extension |-> <<".", "h", "t", "m", "l">>, languages |-> {"html", "css", "scss"}],
    [extension |-> <<".", "h", "t", "m">>, languages |-> {"html", "css", "scss"}],
    [extension |-> <<".", "c", "s", "s">>, languages |-> {"html", "css", "scss"}],
    [extension |-> <<".", "s", "c", "s", "s">>, languages |-> {"html", "css", "scss"}]
>>

\* the README's section 'Example Language Pairs': the languages left of the
\* double arrow and those right of it, line by line
README_PAIR_LINES == <<
    [left |-> {"python"},
     right |-> {"javascript", "typescript", "java", "c++", "c#", "ruby", "go"}],
    [left |-> {"javascript", "typescript"},
     right |-> {"java", "c++", "c#", "dart", "html"}],
    [left |-> {"java"},
     right |-> {"c++", "c#", "go", "kotlin", "scala", "cobol"}],
    [left |-> {"c++"},
     right |-> {"c", "rust"}]
>>

\* every pair of the lines, in both directions
README_PAIRS ==
    UNION {(README_PAIR_LINES[i].left \X README_PAIR_LINES[i].right)
           \cup (README_PAIR_LINES[i].right \X README_PAIR_LINES[i].left) :
           i \in 1..Len(README_PAIR_LINES)}

\* the file names opened in the editor: each README extension behind a few
\* stems, and some names outside the README
Stems == {<<"x">>, <<"M", "a", "i", "n">>, <<"w", "e", "b", "a", "p", "p">>,
          <<"d", "i", "r", ".", "d", "/", "s", "e", "r", "v", "e", "r">>}
FileNames ==
    {stem \o README_EXTENSIONS[i].extension :
        stem \in Stems, i \in 1..Len(README_EXTENSIONS)}
    \cup {<<"x", ".", "P", "Y">>, <<"x", ".", "m", "d">>, <<"M", "a", "k", "e", "f", "i", "l", "e">>,
          <<"p", "o", "m", ".", "x", "m", "l">>, <<"x", ".", "v", "u", "e">>}

\* every language of the registry and of the extension table, and one that
\* neither knows
Languages ==
    {SUPPORTED_LANGUAGE_PAIRS[i].from : i \in 1..Len(SUPPORTED_LANGUAGE_PAIRS)}
    \cup {SUPPORTED_LANGUAGE_PAIRS[i].to : i \in 1..Len(SUPPORTED_LANGUAGE_PAIRS)}
    \cup {EXTENSION_TO_LANGUAGE[i].language : i \in 1..Len(EXTENSION_TO_LANGUAGE)}
    \cup {"haskell"}

\* the environment of the runs that go through the commands and the dialog
DialogEnv ==
    [fileNames |-> FileNames, sourceLanguages |-> Languages,
     codeLengths |-> {MAX_CODE_LENGTH}, dismiss |-> TRUE,
     post |-> {Response(200, FencedX, "", Undefined)},
     atDeadline |-> {},
     health |-> {Response(200, Undefined, "", Undefined)},
     probe |-> {}, answers |-> {}]

\* payloads of the translate endpoint: three back-quotes, a tag and a line
\* break, a body, a line break and three back-quotes; and payloads without
\* a back-quote
Fence == <<BT, BT, BT>>
Fenced(tag, body) == Fence \o tag \o <<NL>> \o body \o <<NL>> \o Fence
Tags == {<<>>, <<"p", "y">>}
Bodies == UNION {[1..n -> {"x", " ", NL, BT}] : n \in 0..MaxBody}
Unfenced == UNION {[1..n -> {"x", " ", NL}] : n \in 1..MaxBody}
FencedPayloads == {Fenced(tag, body) : tag \in Tags, body \in Bodies}

\* the environment of the runs that normalize a payload
NormalizeEnv ==
    [requests |-> {<<MAX_CODE_LENGTH, <<"python", "javascript">>>>},
     post |-> {Response(200, payload, "", Undefined) : payload \in FencedPayloads \cup Unfenced},
     atDeadline |-> {},
     health |-> {Response(200, Undefined, "", Undefined)},
     probe |-> {}, answers |-> {}]

\* an outage during which the user keeps asking for a re-check
OutageEnv ==
    [requests |-> Requests, post |-> {}, atDeadline |-> {},
     health |-> {Response(503, Undefined, "", Undefined), Failure("ECONNREFUSED", TRUE)},
     probe |-> ProbeEvents, answers |-> {"Check Again"}]

\* two calls whose users ask for re-checks while the service comes and goes
ChecksEnv ==
    [requests |-> {<<MAX_CODE_LENGTH, <<"python", "javascript">>>>},
     post |-> {}, atDeadline |-> {},
     health |-> {Response(s, Undefined, "", Undefined) : s \in {200, 503}},
     probe |-> {Failure("ECONNREFUSED", TRUE)},
     answers |-> {"Check Again", "Cancel"}]

TickSteps == {API_HEALTH_CHECK_INTERVAL}

NoHealth == [isHealthy |-> TRUE, message |-> "", status |-> 0]
NoTest == [success |-> FALSE, status |-> 0, message |-> ""]
Pending == [state |-> "pending", value |-> <<>>, error |-> NoError]

IdleCall ==
    [pc |-> "idle", codeLength |-> 0, sourceLang |-> "", targetLang |-> "",
     retryCount |-> 0, healthCheck |-> NoHealth, connectionTest |-> NoTest,
     prompt |-> "none", deadline |-> 0, timerArmed |-> FALSE, wakeAt |-> 0,
     outcome |-> Pending, trace |-> <<>>, delays |-> <<>>,
     posts |-> 0, gets |-> 0, heads |-> 0,
     cancelled |-> FALSE, shown |-> "none", jitter |-> 0,
     fileName |-> <<>>, supportedTargets |-> <<>>]

Inc(n) == IF n < MaxCount THEN n + 1 ELSE n
Push(s, x) == IF Len(s) < MaxCount THEN Append(s, x) ELSE s

Init ==
    /\ now = StartTime
    /\ isApiHealthy = TRUE
    /\ lastApiCheck = 0
    /\ call = [c \in AllCalls |-> IdleCall]

\* ------------------------------------------------ translateCode, step by step
\* A step runs from one await on the network, the user or a timer to the next.

\* the promise settles; the withProgress callback of showTranslationDialog
\* (lines 1580-1599) continues in the same turn
SettleShownAlways(s, decision) ==
    [s EXCEPT !.pc = "done",
              !.healthCheck = NoHealth, !.connectionTest = NoTest,
              !.prompt = "none", !.deadline = 0, !.wakeAt = 0,
              !.outcome = IF decision.type = "return"
                          THEN [state |-> "resolved", value |-> decision.value, error |-> NoError]
                          ELSE [state |-> "rejected", value |-> <<>>, error |-> decision.error],
              !.shown = IF decision.type = "return" THEN "document" ELSE "error"]
Settle(s, decision) ==
    [s EXCEPT !.pc = "done",
              !.healthCheck = NoHealth, !.connectionTest = NoTest,
              !.prompt = "none", !.deadline = 0, !.wakeAt = 0,
              !.outcome = IF decision.type = "return"
                          THEN [state |-> "resolved", value |-> decision.value, error |-> NoError]
                          ELSE [state |-> "rejected", value |-> <<>>, error |-> decision.error],
              !.shown = IF s.cancelled THEN "none"
                        ELSE IF decision.type = "return" THEN "document" ELSE "error"]

\* lines 1197-1253: size check, pair check, then the POST is issued
ValidateOneDeadline(s, t) ==
    IF s.codeLength > MAX_CODE_LENGTH
    THEN Settle(s, OuterCatch(PlainError("Code too large for translation", 0), s.retryCount, 0))
    ELSE IF ~isLanguagePairSupported(s.sourceLang, s.targetLang)
    THEN Settle(s, OuterCatch(PlainError("Translation from <sourceLang> to <targetLang> is not supported.", 0), s.retryCount, 0))
    ELSE [s EXCEPT !.pc = "post", !.posts = Inc(@), !.timerArmed = TRUE,
                   !.deadline = IF s.delays = <<>> THEN t + timeoutMs ELSE t + timeoutMs - InnerRetryDelay]
Validate(s, t) ==
    IF s.codeLength > MAX_CODE_LENGTH
    THEN Settle(s, OuterCatch(PlainError("Code too large for translation", 0), s.retryCount, 0))
    ELSE IF ~isLanguagePairSupported(s.sourceLang, s.targetLang)
    THEN Settle(s, OuterCatch(PlainError("Translation from <sourceLang> to <targetLang> is not supported.", 0), s.retryCount, 0))
    ELSE [s EXCEPT !.pc = "post", !.posts = Inc(@),
                   !.timerArmed = TRUE, !.deadline = t + timeoutMs]

\* lines 1166-1183: an unhealthy result starts the connectivity probe
AfterHealthProbeFreshOnly(s, healthCheck, t) ==
    IF ~healthCheck.isHealthy
    THEN IF healthCheck.message = "undefined"
         THEN [s EXCEPT !.pc = "prompt", !.prompt = "unhealthy",
                        !.healthCheck = healthCheck]
         ELSE [s EXCEPT !.pc = "probe", !.healthCheck = healthCheck,
                        !.heads = Inc(@), !.deadline = t + RequestTimeout]
    ELSE Validate([s EXCEPT !.healthCheck = healthCheck], t)
AfterHealthUngated(s, healthCheck, t) == Validate(s, t)
AfterHealth(s, healthCheck, t) ==
    IF ~healthCheck.isHealthy
    THEN [s EXCEPT !.pc = "probe", !.healthCheck = healthCheck,
                   !.heads = Inc(@), !.deadline = t + RequestTimeout]
    ELSE Validate([s EXCEPT !.healthCheck = healthCheck], t)

\* checkApiHealth up to its await (lines 857-871), entered with the values
\* the module state has at that moment
CacheNever(t, last) == FALSE
CacheFreshInclusive(t, last) == t - last <= API_HEALTH_CHECK_INTERVAL
CacheFresh(t, last) == t - last < API_HEALTH_CHECK_INTERVAL

EnterTranslateUnstamped(s, t, last, healthy) ==
    IF CacheFresh(t, last)
    THEN [lastApiCheck |-> last,
          call |-> AfterHealth(s, [isHealthy |-> healthy, message |-> "undefined", status |-> 0], t)]
    ELSE [lastApiCheck |-> last,
          call |-> [s EXCEPT !.pc = "healthGet", !.gets = Inc(@),
                             !.deadline = t + RequestTimeout]]
EnterTranslate(s, t, last, healthy) ==
    IF CacheFresh(t, last)
    THEN [lastApiCheck |-> last,
          call |-> AfterHealth(s, [isHealthy |-> healthy, message |-> "undefined", status |-> 0], t)]
    ELSE [lastApiCheck |-> t,
          call |-> [s EXCEPT !.pc = "healthGet", !.gets = Inc(@),
                             !.deadline = t + RequestTimeout]]

\* showTranslationDialog calls translateCode(code, source, target, preserve)
Begin(c, env) ==
    /\ call[c].pc = "idle"
    /\ \E request \in env.requests :
         LET s == [call[c] EXCEPT !.codeLength = request[1],
                                  !.sourceLang = request[2][1],
                                  !.targetLang = request[2][2],
                                  !.retryCount = DefaultRetryCount]
             e == EnterTranslate(s, now, lastApiCheck, isApiHealthy)
         IN  /\ call' = [call EXCEPT ![c] = e.call]
             /\ lastApiCheck' = e.lastApiCheck
    /\ UNCHANGED <<now, isApiHealthy>>

\* lines 871-907: the health GET completes
HealthResultAny2xx(ev) ==
    IF ev.kind = "response"
    THEN [isHealthy |-> ev.status >= 200 /\ ev.status < 300,
          message |-> IF ev.status >= 200 /\ ev.status < 300
                      THEN "API is healthy" ELSE "API returned status <status>",
          status |-> ev.status]
    ELSE [isHealthy |-> FALSE, message |-> "Connection failed: <code>", status |-> 0]
HealthResult(ev) ==
    LET settled == AxiosSettle(ev, validateStatusAny(ev.status)) IN
    IF settled.ok
    THEN [isHealthy |-> ev.status = 200,
          message |-> IF ev.status = 200 THEN "API is healthy" ELSE "API returned status <status>",
          status |-> ev.status]
    ELSE [isHealthy |-> FALSE, message |-> "Connection failed: <code>", status |-> 0]

HealthResponse(c, env) ==
    /\ call[c].pc = "healthGet"
    /\ \E ev \in env.health :
         LET h == HealthResult(ev) IN
         /\ isApiHealthy' = h.isHealthy
         /\ call' = [call EXCEPT ![c] = AfterHealth([call[c] EXCEPT !.deadline = 0], h, now)]
    /\ UNCHANGED <<now, lastApiCheck>>

\* testConnection, lines 825-855
ProbeResultBelow500(ev) ==
    IF ev.kind = "response"
    THEN [success |-> ev.status < 500, status |-> ev.status,
          message |-> "Connection successful (<status> in <responseTime>ms)"]
    ELSE [success |-> FALSE, status |-> 0, message |-> "Connection failed: <code>"]
ProbeResult(ev) ==
    LET settled == AxiosSettle(ev, validateStatusAny(ev.status)) IN
    IF settled.ok
    THEN [success |-> ev.status < 400, status |-> ev.status,
          message |-> "Connection successful (<status> in <responseTime>ms)"]
    ELSE [success |-> FALSE, status |-> 0, message |-> "Connection failed: <code>"]

\* lines 1170-1183: whatever the probe returns, the prompt is shown
AfterProbeGated(s, connectionTest, t) ==
    IF connectionTest.success
    THEN Validate([s EXCEPT !.deadline = 0, !.connectionTest = connectionTest], t)
    ELSE [s EXCEPT !.pc = "prompt", !.prompt = "unhealthy", !.deadline = 0,
                   !.connectionTest = connectionTest]
AfterProbe(s, connectionTest, t) ==
    [s EXCEPT !.pc = "prompt", !.prompt = "unhealthy", !.deadline = 0,
              !.connectionTest = connectionTest]

ProbeResponse(c, env) ==
    /\ call[c].pc = "probe"
    /\ \E ev \in env.probe :
         call' = [call EXCEPT ![c] = AfterProbe(call[c], ProbeResult(ev), now)]
    /\ UNCHANGED <<now, isApiHealthy, lastApiCheck>>

\* lines 1177-1195: the user answers the unhealthy-service prompt;
\* lines 1349-1381: the user answers the service-unavailable prompt
AfterAnswerNoReset(asked, answer, t, last, healthy) ==
    LET s == [asked EXCEPT !.prompt = "none"] IN
    IF asked.prompt = "unavailable"
    THEN [lastApiCheck |-> last,
          call |-> Settle(s, Throw(PlainError("Translation service unavailable. Please try again later.", 0), "outer"))]
    ELSE IF answer = "Check Again"
    THEN EnterTranslate([s EXCEPT !.healthCheck = NoHealth, !.connectionTest = NoTest],
                        t, last, healthy)
    ELSE [lastApiCheck |-> last,
          call |-> IF answer = "Open Network Settings"
                   THEN Settle(s, OuterCatch(PlainError("Please check your network settings and try again.", 0), s.retryCount, 0))
                   ELSE IF answer # "Try Anyway"
                   THEN Settle(s, OuterCatch(PlainError("Translation aborted by user", 0), s.retryCount, 0))
                   ELSE Validate(s, t)]
AfterAnswer(asked, answer, t, last, healthy) ==
    LET s == [asked EXCEPT !.prompt = "none"] IN
    IF asked.prompt = "unavailable"
    THEN [lastApiCheck |-> last,
          call |-> Settle(s, Throw(PlainError("Translation service unavailable. Please try again later.", 0), "outer"))]
    ELSE IF answer = "Check Again"
    THEN EnterTranslate([s EXCEPT !.healthCheck = NoHealth, !.connectionTest = NoTest],
                        t, 0, healthy)
    ELSE [lastApiCheck |-> last,
          call |-> IF answer = "Open Network Settings"
                   THEN Settle(s, OuterCatch(PlainError("Please check your network settings and try again.", 0), s.retryCount, 0))
                   ELSE IF answer # "Try Anyway"
                   THEN Settle(s, OuterCatch(PlainError("Translation aborted by user", 0), s.retryCount, 0))
                   ELSE Validate(s, t)]

AnswerWith(c, answer) ==
    /\ call[c].pc = "prompt"
    /\ LET e == AfterAnswer(call[c], answer, now, lastApiCheck, isApiHealthy)
       IN  /\ call' = [call EXCEPT ![c] = e.call]
           /\ lastApiCheck' = e.lastApiCheck
    /\ UNCHANGED <<now, isApiHealthy>>

AnswerPrompt(c, env) == \E answer \in env.answers : AnswerWith(c, answer)

\* setTimeout with a delay that is not a number fires at once
TimerDelay(d) == IF d = NaN THEN 1 ELSE d

\* lines 1241-1435: the POST settles and the handlers run
AfterPostTimerLeft(s, ev, decision, t) ==
    LET r == [s EXCEPT !.trace = Push(@, ev)]
    IN  IF decision.type = "retry"
        THEN [r EXCEPT !.pc = "delay", !.wakeAt = t + TimerDelay(decision.delay),
                       !.delays = Push(@, decision.delay)]
        ELSE IF decision.type = "ask"
        THEN [r EXCEPT !.pc = "prompt", !.prompt = "unavailable"]
        ELSE Settle(r, decision)
AfterPost(s, ev, decision, t) ==
    LET r == [s EXCEPT !.timerArmed = FALSE, !.deadline = 0,
                       !.trace = Push(@, ev)]
    IN  IF decision.type = "retry"
        THEN [r EXCEPT !.pc = "delay", !.wakeAt = t + TimerDelay(decision.delay),
                       !.delays = Push(@, decision.delay)]
        ELSE IF decision.type = "ask"
        THEN [r EXCEPT !.pc = "prompt", !.prompt = "unavailable"]
        ELSE Settle(r, decision)

\* jitter is the value of Math.floor(Math.random() * 1000) in this turn; the
\* call keeps it in its jitter field while it waits
AfterAttempt(s, ev, jitter, t) ==
    LET r == AfterPost(s, ev, PostDecision(ev, s.retryCount, jitter), t)
    IN  [r EXCEPT !.jitter = IF r.pc = "delay" THEN jitter ELSE 0]

PostSettle(c, env) ==
    /\ call[c].pc = "post"
    /\ \E ev \in env.post \cup {d \in env.atDeadline : now >= call[c].deadline},
          jitter \in JitterValues :
         call' = [call EXCEPT ![c] = AfterAttempt(call[c], ev, jitter, now)]
    /\ UNCHANGED <<now, isApiHealthy, lastApiCheck>>

\* the delay is over: translateCode(code, source, target, preserve, retryCount - 1)
SameRetryCount(retryCount) == retryCount
NextRetryCount(retryCount) == retryCount - 1

AfterDelay(s, t, last, healthy) ==
    EnterTranslate([s EXCEPT !.wakeAt = 0, !.jitter = 0,
                             !.retryCount = NextRetryCount(@)],
                   t, last, healthy)

WakeUp(c) ==
    /\ call[c].pc = "delay"
    /\ now >= call[c].wakeAt
    /\ LET e == AfterDelay(call[c], now, lastApiCheck, isApiHealthy)
       IN  /\ call' = [call EXCEPT ![c] = e.call]
           /\ lastApiCheck' = e.lastApiCheck
    /\ UNCHANGED <<now, isApiHealthy>>

\* the user presses Cancel on the progress notification (cancellable: true,
\* line 1576): the token is set, nothing else is connected to it
Cancel(c) ==
    /\ call[c].pc \notin {"idle", "done"}
    /\ ~call[c].cancelled
    /\ call' = [call EXCEPT ![c].cancelled = TRUE]
    /\ UNCHANGED <<now, isApiHealthy, lastApiCheck>>

\* showTranslationDialog, lines 1493-1567: without a target to offer the
\* dialog reports it and returns; otherwise the quick pick opens
showTranslationDialogUnchecked(s, codeLength, sourceLanguage) ==
    [s EXCEPT !.codeLength = codeLength, !.sourceLang = sourceLanguage,
              !.pc = "pick",
              !.supportedTargets = getSupportedTargetLanguages(sourceLanguage)]
showTranslationDialog(s, codeLength, sourceLanguage) ==
    LET supportedTargets == getSupportedTargetLanguages(sourceLanguage)
        r == [s EXCEPT !.codeLength = codeLength, !.sourceLang = sourceLanguage]
    IN  IF Len(supportedTargets) = 0
        THEN [r EXCEPT !.pc = "closed", !.shown = "noTargets"]
        ELSE [r EXCEPT !.pc = "pick", !.supportedTargets = supportedTargets]

\* showTranslationDialog called with a source language
ShowTranslationDialog(c, env) ==
    /\ call[c].pc = "idle"
    /\ \E codeLength \in env.codeLengths, sourceLanguage \in env.sourceLanguages :
         call' = [call EXCEPT ![c] = showTranslationDialog(call[c], codeLength, sourceLanguage)]
    /\ UNCHANGED <<now, isApiHealthy, lastApiCheck>>

\* the commands polygot.translateSelection and polygot.translateCode, lines
\* 1469-1491 and 1623-1637, run on the document of the active editor
TranslateCommand(c, env) ==
    /\ call[c].pc = "idle"
    /\ \E codeLength \in env.codeLengths, fileName \in env.fileNames :
       \E sourceLanguage \in {getLanguageFromFileName(fileName)} :
         LET opened == [call[c] EXCEPT !.fileName = fileName]
         IN  call' = [call EXCEPT ![c] =
                IF sourceLanguage = NoLanguage
                THEN [opened EXCEPT !.pc = "closed", !.shown = "noLanguage"]
                ELSE showTranslationDialog(opened, codeLength, sourceLanguage)]
    /\ UNCHANGED <<now, isApiHealthy, lastApiCheck>>

\* lines 1555-1586: the user picks a target or dismisses the quick pick; a
\* pick calls translateCode(code, sourceLanguage, targetLanguage, preserve)
PickTarget(c, env) ==
    /\ call[c].pc = "pick"
    /\ \/ /\ env.dismiss
          /\ call' = [call EXCEPT ![c] = [@ EXCEPT !.pc = "closed"]]
          /\ lastApiCheck' = lastApiCheck
       \/ \E k \in 1..Len(call[c].supportedTargets) :
            LET s == [call[c] EXCEPT !.targetLang = call[c].supportedTargets[k],
                                     !.retryCount = DefaultRetryCount]
                e == EnterTranslate(s, now, lastApiCheck, isApiHealthy)
            IN  /\ call' = [call EXCEPT ![c] = e.call]
                /\ lastApiCheck' = e.lastApiCheck
    /\ UNCHANGED <<now, isApiHealthy>>

\* time passes, never beyond a timer that is still pending; the clock is
\* observed when a POST reaches its deadline, when a delay ends and one
\* caching window later
Deadlines ==
    {call[c].deadline : c \in {k \in AllCalls : call[k].pc \in {"healthGet", "probe", "post"}}}
PostDeadlines == {call[c].deadline : c \in {k \in AllCalls : call[k].pc = "post"}}
WakeTimes == {call[c].wakeAt : c \in {k \in AllCalls : call[k].pc = "delay"}}
Timers == Deadlines \cup WakeTimes

Tick(env) ==
    /\ \A t \in Timers : t > now
    /\ \E t \in {now + d : d \in TickSteps} \cup WakeTimes
                \cup (IF env.atDeadline = {} THEN {} ELSE PostDeadlines) :
         /\ t \in WakeTimes \/ t <= MaxTime
         /\ \A u \in Timers : t <= u
         /\ now' = t
    /\ UNCHANGED <<isApiHealthy, lastApiCheck, call>>

\* time passes in steps shorter than a request's timeout, for a while
ElapseStep == 1000
MaxElapse == 2 * ElapseStep

Elapse ==
    /\ now + ElapseStep <= StartTime + MaxElapse
    /\ \A t \in Timers : now + ElapseStep <= t
    /\ now' = now + ElapseStep
    /\ UNCHANGED <<isApiHealthy, lastApiCheck, call>>

\* one translateCode call
Calls == {1}
Next ==
    \/ \E c \in Calls : Begin(c, FullEnv)
    \/ \E c \in Calls : HealthResponse(c, FullEnv)
    \/ \E c \in Calls : ProbeResponse(c, FullEnv)
    \/ \E c \in Calls : AnswerPrompt(c, FullEnv)
    \/ \E c \in Calls : PostSettle(c, FullEnv)
    \/ \E c \in Calls : WakeUp(c)
    \/ \E c \in Calls : Cancel(c)
    \/ Tick(FullEnv)

Spec == Init /\ [][Next]_vars

\* two translateCode calls running concurrently
NextConc ==
    \/ \E c \in AllCalls : Begin(c, ConcEnv)
    \/ \E c \in AllCalls : HealthResponse(c, ConcEnv)
    \/ \E c \in AllCalls : ProbeResponse(c, ConcEnv)
    \/ \E c \in AllCalls : AnswerPrompt(c, ConcEnv)
    \/ \E c \in AllCalls : PostSettle(c, ConcEnv)
    \/ \E c \in AllCalls : WakeUp(c)
    \/ Tick(ConcEnv)

SpecConc == Init /\ [][NextConc]_vars

\* one run of a command: file name, dialog, translateCode
NextDialog ==
    \/ \E c \in Calls : TranslateCommand(c, DialogEnv)
    \/ \E c \in Calls : ShowTranslationDialog(c, DialogEnv)
    \/ \E c \in Calls : PickTarget(c, DialogEnv)
    \/ \E c \in Calls : HealthResponse(c, DialogEnv)
    \/ \E c \in Calls : PostSettle(c, DialogEnv)

SpecDialog == Init /\ [][NextDialog]_vars

\* one translateCode call whose POST is answered with a payload
NextNormalize ==
    \/ \E c \in Calls : Begin(c, NormalizeEnv)
    \/ \E c \in Calls : HealthResponse(c, NormalizeEnv)
    \/ \E c \in Calls : PostSettle(c, NormalizeEnv)

SpecNormalize == Init /\ [][NextNormalize]_vars

\* every request is answered or times out, every timer fires and the user
\* answers every prompt
Fairness ==
    /\ WF_vars(Tick(FullEnv))
    /\ \A c \in Calls :
         /\ WF_vars(HealthResponse(c, FullEnv))
         /\ WF_vars(ProbeResponse(c, FullEnv))
         /\ WF_vars(AnswerPrompt(c, FullEnv))
         /\ WF_vars(PostSettle(c, FullEnv))
         /\ WF_vars(WakeUp(c))

FairSpec == Spec /\ Fairness

\* one translateCode call during an outage, every prompt answered with
\* 'Check Again'; requests are answered and the user answers
NextOutage ==
    \/ \E c \in Calls : Begin(c, OutageEnv)
    \/ \E c \in Calls : HealthResponse(c, OutageEnv)
    \/ \E c \in Calls : ProbeResponse(c, OutageEnv)
    \/ \E c \in Calls : AnswerPrompt(c, OutageEnv)
    \/ Tick(OutageEnv)

SpecOutage ==
    /\ Init /\ [][NextOutage]_vars
    /\ \A c \in Calls :
         /\ WF_vars(Begin(c, OutageEnv))
         /\ WF_vars(HealthResponse(c, OutageEnv))
         /\ WF_vars(ProbeResponse(c, OutageEnv))
         /\ WF_vars(AnswerPrompt(c, OutageEnv))

\* two calls and their health checks, with time passing between the checks
NextChecks ==
    \/ \E c \in AllCalls : Begin(c, ChecksEnv)
    \/ \E c \in AllCalls : HealthResponse(c, ChecksEnv)
    \/ \E c \in AllCalls : ProbeResponse(c, ChecksEnv)
    \/ \E c \in AllCalls : AnswerPrompt(c, ChecksEnv)
    \/ Elapse

SpecChecks == Init /\ [][NextChecks]_vars

TypeOK ==
    /\ now \in Nat
    /\ isApiHealthy \in BOOLEAN
    /\ lastApiCheck \in Nat
    /\ \A c \in AllCalls :
         call[c].pc \in {"idle", "pick", "closed", "healthGet", "probe", "prompt", "post", "delay", "done"}

\* ------------------------------------------------------------ the claims
UnsupportedText == "Translation from <sourceLang> to <targetLang> is not supported."
TooLargeTexts ==
    {"Code too large for translation",
     "The code is too large to translate. Please reduce the size and try again."}
UnavailableTexts ==
    {"Translation service is currently unavailable. The request timed out.",
     "Translation service unavailable. Please try again later."}
RateLimitText == "Translation service rate limit exceeded. Please try again later."
ConnectionTexts ==
    {"Could not connect to the translation service. Please check your internet connection.",
     "Connection to the translation service was reset. Please try again.",
     "No response received from the translation service. Please check your connection."}

Started(c) == call[c].pc # "idle"
Done(c) == call[c].pc = "done"
Resolved(c) == call[c].outcome.state = "resolved"
Rejected(c) == call[c].outcome.state = "rejected"
RejectedWith(c, texts) == Rejected(c) /\ call[c].outcome.error.text \in texts
NoNetwork(c) == call[c].posts = 0 /\ call[c].gets = 0 /\ call[c].heads = 0
FailedWith(ev, codes) == ev.kind = "failure" /\ ev.errcode \in codes
Answered(ev, statuses) == ev.kind = "response" /\ ev.status \in statuses
Last(seq) == seq[Len(seq)]

\* C1: a call for a pair that is not in SUPPORTED_LANGUAGE_PAIRS issues no
\* network request at any time and ends with the unsupported-pair failure.
C1_UnsupportedWithoutNetwork ==
    \A c \in AllCalls :
        (Started(c) /\ ~isLanguagePairSupported(call[c].sourceLang, call[c].targetLang))
        => /\ NoNetwork(c)
           /\ Done(c) => RejectedWith(c, {UnsupportedText})

\* C2: a call whose source text is longer than 10,000 characters issues no
\* network request at any time and ends with the payload-too-large failure.
C2_TooLargeWithoutNetwork ==
    \A c \in AllCalls :
        (Started(c) /\ call[c].codeLength > 10000)
        => /\ NoNetwork(c)
           /\ Done(c) => RejectedWith(c, TooLargeTexts)

\* C3 as stated: every started call eventually settles, whatever the
\* transport does and whatever the user answers.
C3_AlwaysSettles == \A c \in Calls : Started(c) ~> Done(c)

\* C3 as amended: every started call eventually settles unless the user keeps
\* answering 'Check Again' for ever; and a POST attempt that ends with the
\* budget at zero settles the call in that very step.
C3_SettlesUnlessCheckAgain ==
    /\ \A c \in Calls :
         \/ []<><<AnswerWith(c, "Check Again")>>_vars
         \/ Started(c) ~> Done(c)
    /\ [][\A c \in Calls :
            (call[c].pc = "post" /\ call[c].retryCount = 0 /\ call'[c].pc # "post")
            => call'[c].pc = "done"]_vars

\* a call that went through 'Check Again', used its retry and failed
C3_Witness ==
    \E c \in Calls :
        /\ Done(c) /\ Rejected(c)
        /\ call[c].gets >= 2 /\ call[c].retryCount = 0 /\ call[c].posts = 2

\* the retries a call has started: the delays it has taken, less the one it
\* is still waiting out
RetriesStarted(c) ==
    Len(call[c].delays) - (IF call[c].pc = "delay" THEN 1 ELSE 0)

\* C4: a call issues at most 2 POSTs; its budget is the default minus the
\* number of its own retries and never negative; each POST beyond the first
\* follows one retry of the same call, whatever the other call does.
C4_BudgetPerCall ==
    \A c \in AllCalls :
        Started(c) =>
            /\ call[c].posts <= 2
            /\ call[c].retryCount >= 0
            /\ call[c].retryCount = DefaultRetryCount - RetriesStarted(c)
            /\ call[c].posts <= RetriesStarted(c) + 1

\* one call has used its retry while the other is on its first POST
C4_Witness ==
    \E c, d \in AllCalls :
        /\ c # d
        /\ call[c].posts = 2 /\ call[c].retryCount = 0
        /\ call[d].pc = "post" /\ call[d].posts = 1 /\ call[d].retryCount = 1

\* C5: when the first POST times out (axios timeout or abort timer) and the
\* second is answered 200 with a translation that is not blank, the call
\* returns the second answer normalized and has waited exactly once in
\* between, for 1000 to 3000 ms.
C5_TimeoutThenSuccess ==
    \A c \in AllCalls :
        LET s == call[c] IN
        ( /\ Done(c) /\ Len(s.trace) = 2
          /\ FailedWith(s.trace[1], {"ECONNABORTED", "ERR_CANCELED"})
          /\ Answered(s.trace[2], {200})
          /\ ~Falsy(s.trace[2].translated_code)
          /\ Normalize(s.trace[2].translated_code) # <<>> )
        => /\ Resolved(c)
           /\ s.outcome.value = Normalize(s.trace[2].translated_code)
           /\ s.posts = 2
           /\ Len(s.delays) = 1
           /\ s.delays[1] >= 1000 /\ s.delays[1] <= 3000

C5_Witness ==
    \E c \in AllCalls :
        /\ Done(c) /\ Resolved(c)
        /\ call[c].trace = <<Failure("ECONNABORTED", TRUE), Response(200, FencedX, "", Undefined)>>
        /\ call[c].outcome.value = <<"x">>
        /\ call[c].delays = <<1000>>

\* C6: a first POST answered 429 is followed by a wait of retry-after x 1000
\* ms (5000 ms without the header) and a second POST; when that one is
\* answered 429 too the call ends with the rate-limited failure.
C6_RateLimitRetried ==
    \A c \in AllCalls :
        LET s == call[c] IN
        (s.trace # <<>> /\ Answered(s.trace[1], {429}))
        => /\ Len(s.delays) >= 1
           /\ s.delays[1] = retryAfterMs(s.trace[1].retryAfter)
           /\ Done(c) => /\ s.posts = 2
                         /\ Answered(Last(s.trace), {429}) => RejectedWith(c, {RateLimitText})

\* C7: a first POST that ends in the axios timeout, in the abort timer or in
\* HTTP 504 is followed by a retry; such an end with no budget left fails the
\* call with the service-unavailable failure.
C7_TimeoutsRetried ==
    \A c \in AllCalls :
        LET s == call[c]
            timedOut(ev) == FailedWith(ev, {"ECONNABORTED", "ERR_CANCELED"}) \/ Answered(ev, {504})
        IN  /\ (s.trace # <<>> /\ timedOut(s.trace[1])) => Len(s.delays) >= 1
            /\ (Done(c) /\ Len(s.trace) = 2 /\ timedOut(s.trace[2]))
               => RejectedWith(c, UnavailableTexts)

\* C8: a first POST that fails with ECONNRESET, ENOTFOUND or ETIMEDOUT is
\* followed by a retry after the backoff delay; such a failure with no budget
\* left fails the call with the connection-error failure.
C8_ConnectionErrorsRetried ==
    \A c \in AllCalls :
        LET s == call[c]
            connection(ev) == FailedWith(ev, {"ECONNRESET", "ENOTFOUND", "ETIMEDOUT"})
        IN  /\ (s.trace # <<>> /\ connection(s.trace[1]))
               => Len(s.delays) >= 1 /\ s.delays[1] >= 1000
            /\ (Done(c) /\ Len(s.trace) = 2 /\ connection(s.trace[2]))
               => RejectedWith(c, ConnectionTexts)

\* C9: once the caller has cancelled, the call issues no further POST and no
\* POST of the call stays in flight.
C9_CancelStopsCall ==
    [][\A c \in AllCalls :
         call[c].cancelled
         => call'[c].posts = call[c].posts /\ call'[c].pc # "post"]_vars

\* C10: a call never resolves with the empty string; a 2xx answer whose
\* translated_code is missing, empty or blank after normalization rejects it.
C10_NeverEmpty ==
    \A c \in AllCalls :
        LET s == call[c] IN
        /\ Resolved(c) => s.outcome.value # <<>>
        /\ ( /\ Done(c) /\ s.trace # <<>>
             /\ Answered(Last(s.trace), 200..299)
             /\ \/ Falsy(Last(s.trace).translated_code)
                \/ Normalize(Last(s.trace).translated_code) = <<>> )
           => Rejected(c)

C10_Witness ==
    \E c \in AllCalls :
        /\ Done(c) /\ call[c].trace # <<>>
        /\ Last(call[c].trace) = Response(200, FencedEmpty, "", Undefined)
        /\ RejectedWith(c, {"Received empty translation from the server"})

\* a call enters translateCode from outside or from a retry, and so consults
\* the health monitor
Consults(c) == call[c].pc \in {"idle", "delay"} /\ call'[c].pc # call[c].pc
\* a health GET of the call is started
StartsGet(c) == call[c].pc # "healthGet" /\ call'[c].pc = "healthGet"
Young == now - lastApiCheck < API_HEALTH_CHECK_INTERVAL
GetInFlight == \E k \in AllCalls : call[k].pc = "healthGet"

FailedCached == ~isApiHealthy /\ Young /\ ~GetInFlight

\* C12 as stated: while a failed health check is cached and young, no call
\* starts a health GET, whatever the user answers.
C12_NoGetDuringOutage ==
    [][\A c \in AllCalls : FailedCached => ~StartsGet(c)]_vars

\* C12 as amended: while a failed health check is cached and young, every
\* call that enters translateCode gets the cached unhealthy result without a
\* GET; only the answer 'Check Again' starts a GET in that window.
C12_NoGetUnlessCheckAgain ==
    [][\A c \in AllCalls :
         FailedCached =>
            /\ Consults(c) => (call'[c].pc = "probe" /\ call'[c].gets = call[c].gets)
            /\ StartsGet(c) => AnswerWith(c, "Check Again")]_vars

\* a second call was told unhealthy from the cache of the first call's check
C12_Witness ==
    \E c, d \in AllCalls :
        /\ c # d /\ ~isApiHealthy
        /\ call[c].gets >= 1
        /\ call[d].pc = "probe" /\ call[d].gets = 0

\* C13 as stated: lastApiCheck never decreases and no health GET is started
\* while the last one is younger than the caching window.
C13_MonotoneNoRecheck ==
    [][/\ lastApiCheck' >= lastApiCheck
       /\ \A c \in AllCalls : Young => ~StartsGet(c)]_vars

\* C13 as amended: lastApiCheck never decreases from one step to the next,
\* and a health GET is started while the last one is younger than the caching
\* window only from the unhealthy-service prompt.
C13_MonotoneRecheckFromPrompt ==
    [][/\ lastApiCheck' >= lastApiCheck
       /\ \A c \in AllCalls :
            (Young /\ StartsGet(c))
            => call[c].pc = "prompt" /\ call[c].prompt = "unhealthy"]_vars

\* a re-check was forced one window after the first check
C13_Witness ==
    \E c \in AllCalls :
        /\ call[c].pc = "healthGet" /\ call[c].gets >= 2 /\ call[c].heads >= 1
        /\ lastApiCheck = now /\ now > StartTime

Declines == {"Open Network Settings", "Cancel", "undefined"}
AtUnhealthyPrompt(c) == call[c].pc = "prompt" /\ call[c].prompt = "unhealthy"

C15_RetryResumesAtPost ==
    [][\A c \in AllCalls :
         (call[c].pc = "delay" /\ call'[c].pc # "delay")
         => /\ call'[c].pc = "post"
            /\ call'[c].gets = call[c].gets
            /\ call'[c].heads = call[c].heads
            /\ call'[c].retryCount = call[c].retryCount - 1]_vars

\* C16 as stated: a health GET is started only when the previous one was
\* started at least one caching window earlier.
C16_GetsOneWindowApart ==
    [][\A c \in AllCalls :
         StartsGet(c) => now - lastApiCheck >= API_HEALTH_CHECK_INTERVAL]_vars

\* C16 as amended: a health GET is started less than one caching window after
\* the previous one only by the answer 'Check Again'; every GET stamps
\* lastApiCheck with its start time, and only a completing GET changes
\* isApiHealthy.
C16_GetsApartUnlessCheckAgain ==
    [][/\ \A c \in AllCalls :
            StartsGet(c) =>
               /\ lastApiCheck' = now
               /\ \/ now - lastApiCheck >= API_HEALTH_CHECK_INTERVAL
                  \/ AnswerWith(c, "Check Again")
       /\ isApiHealthy' # isApiHealthy
          => \E c \in AllCalls : call[c].pc = "healthGet" /\ call'[c].pc # "healthGet"]_vars

\* both calls have a health GET in flight at the same instant
C16_Witness ==
    \E c, d \in AllCalls :
        /\ c # d
        /\ call[c].pc = "healthGet" /\ call[d].pc = "healthGet"
        /\ lastApiCheck = now

\* C17: a request that is both for an unsupported pair and too long, once it
\* reaches validation, is rejected as unsupported.
C17_UnsupportedBeforeSize ==
    \A c \in AllCalls :
        ( /\ Done(c)
          /\ ~isLanguagePairSupported(call[c].sourceLang, call[c].targetLang)
          /\ call[c].codeLength > MAX_CODE_LENGTH
          /\ RejectedWith(c, TooLargeTexts \cup {UnsupportedText}) )
        => RejectedWith(c, {UnsupportedText})

\* C18: a POST answered 413 ends the call at once, without a delay, with the
\* payload-too-large failure.
C18_ServerTooLarge ==
    \A c \in AllCalls :
        (call[c].trace # <<>> /\ Answered(Last(call[c].trace), {413}))
        => /\ Done(c)
           /\ RejectedWith(c, TooLargeTexts)
           /\ Len(call[c].delays) = Len(call[c].trace) - 1

\* answers that are neither retried nor a translation
Unclassified(ev) ==
    \/ Answered(ev, (400..599) \ {429, 504})
    \/ Answered(ev, 200..299) /\ Falsy(ev.translated_code)
    \/ FailedWith(ev, {"ERR_INVALID_URL"})

\* C19: a POST that ends in a 4xx/5xx status other than 429 and 504, in a
\* 2xx answer without translated_code or in an unclassified error ends the
\* call rejected in that step: no delay follows and no further POST.
C19_NoRetryForOthers ==
    \A c \in AllCalls :
        (call[c].trace # <<>> /\ Unclassified(Last(call[c].trace)))
        => /\ Done(c) /\ Rejected(c)
           /\ Len(call[c].delays) = Len(call[c].trace) - 1
           /\ call[c].posts = Len(call[c].trace)

\* a first POST answered 500 ended the call with its whole budget left
C19_Witness ==
    \E c \in AllCalls :
        /\ Done(c) /\ Rejected(c)
        /\ call[c].trace = <<Response(500, Undefined, "", Undefined)>>
        /\ call[c].retryCount = 1 /\ call[c].posts = 1 /\ call[c].delays = <<>>

TimedOut(ev) == FailedWith(ev, {"ECONNABORTED"}) \/ Answered(ev, {504})
WaitsAfterTimeout(c) ==
    call[c].pc = "delay" /\ call[c].trace # <<>> /\ TimedOut(Last(call[c].trace))

\* C20: the delay before a timeout/504 retry is min(1000 * 2^attemptNumber,
\* 30000) plus the jitter drawn for it, and is never above 31000.
C20_BackoffWithJitter ==
    \A c \in AllCalls :
        WaitsAfterTimeout(c)
        => /\ Last(call[c].delays)
                = Min(1000 * Pow2(maxRetries - call[c].retryCount), 30000) + call[c].jitter
           /\ Last(call[c].delays) <= 31000

\* C21: every rejection of translateCode is a plain Error, never an
\* AxiosError, also when it comes out of a retry.
C21_RejectionsArePlainErrors ==
    \A c \in AllCalls :
        Rejected(c) => /\ ~call[c].outcome.error.isAxios
                       /\ call[c].outcome.error.text # "axios"

\* the POST of a retry failed in the transport and the call was rejected
C21_Witness ==
    \E c \in AllCalls :
        /\ Done(c) /\ Rejected(c)
        /\ Len(call[c].trace) = 2
        /\ FailedWith(Last(call[c].trace), {"ECONNRESET"})
        /\ call[c].retryCount = 0

\* translateCode returned text, or rejected because text is empty
Returned(c, text) ==
    IF text = <<>>
    THEN RejectedWith(c, {"Received empty translation from the server"})
    ELSE Resolved(c) /\ call[c].outcome.value = text

\* C22: a payload made of a fence line, a body, a line break and a fence is
\* normalized to exactly its body, trimmed, whatever the body holds (also a
\* further fence line or a further fence); a payload without fences is
\* normalized to itself, trimmed.
C22_FencedBodyReturned ==
    \A c \in AllCalls :
        (Done(c) /\ call[c].trace # <<>> /\ Answered(Last(call[c].trace), {200}))
        => LET payload == Last(call[c].trace).translated_code IN
           /\ \A tag \in Tags :
                LET n == Len(payload) - Len(tag) - 8
                    body == SubSeq(payload, Len(tag) + 5, Len(tag) + 4 + n)
                IN  (n >= 0 /\ payload = Fenced(tag, body)) => Returned(c, Trim(body))
           /\ payload \in Unfenced => Returned(c, Trim(payload))

\* a fenced payload whose body has a space in front and a line break inside
\* was returned without the space
C22_Witness ==
    \E c \in AllCalls :
        /\ Done(c) /\ Resolved(c)
        /\ Last(call[c].trace).translated_code = Fenced(<<"p", "y">>, <<" ", "x", NL, "x">>)
        /\ call[c].outcome.value = <<"x", NL, "x">>

\* the dialog has asked the registry for the targets of the call's source
AskedTargets(c) == call[c].pc = "pick" \/ call[c].shown = "noTargets"

\* C23: the list getSupportedTargetLanguages(s) holds t exactly when
\* isLanguagePairSupported(s, t), and holds no language twice; asking the
\* registry changes neither the health state nor the clock, and a target
\* picked from the list is never rejected as unsupported.
C23_TargetsMatchAdmission ==
    /\ [](\A c \in AllCalls :
            /\ AskedTargets(c) =>
                 LET targets == call[c].supportedTargets IN
                 /\ \A t \in Languages :
                      (\E k \in 1..Len(targets) : targets[k] = t)
                      <=> isLanguagePairSupported(call[c].sourceLang, t)
                 /\ \A k \in 1..Len(targets) : targets[k] \in Languages
                 /\ \A j, k \in 1..Len(targets) : j # k => targets[j] # targets[k]
            /\ (Done(c) /\ call[c].supportedTargets # <<>>)
                 => ~RejectedWith(c, {UnsupportedText}))
    /\ [][\A c \in AllCalls :
            (call[c].pc = "idle" /\ call'[c].pc \in {"pick", "closed"})
            => UNCHANGED <<now, isApiHealthy, lastApiCheck>>]_vars

\* the quick pick is open with the eleven targets of python
C23_Witness ==
    \E c \in AllCalls :
        /\ call[c].pc = "pick"
        /\ call[c].sourceLang = "python"
        /\ Len(call[c].supportedTargets) = 11
        /\ call[c].supportedTargets[1] = "javascript"

\* C24: when the registry has no target for the source language, the dialog
\* reports that it has nothing to offer and ends: translateCode is never
\* called and no request is sent.
C24_NoTargetsNoTranslate ==
    /\ [](\A c \in AllCalls :
            call[c].shown = "noTargets"
            => /\ call[c].pc = "closed"
               /\ call[c].outcome.state = "pending"
               /\ NoNetwork(c) /\ call[c].trace = <<>>)
    /\ [][\A c \in AllCalls :
            ( /\ call[c].pc = "idle" /\ call'[c].pc # "idle"
              /\ call'[c].shown # "noLanguage"
              /\ Len(getSupportedTargetLanguages(call'[c].sourceLang)) = 0 )
            => call'[c].pc = "closed" /\ call'[c].shown = "noTargets"]_vars

\* the dialog was opened for a language without targets and has ended
C24_Witness ==
    \E c \in AllCalls :
        /\ call[c].sourceLang = "haskell"
        /\ call[c].pc = "closed" /\ call[c].shown = "noTargets"
        /\ NoNetwork(c)

\* C25: a file whose name ends in an extension of the README's list is given
\* a language the README lists for that extension.
C25_ReadmeExtensions ==
    \A c \in AllCalls :
        \A i \in 1..Len(README_EXTENSIONS) :
            ( /\ call[c].pc # "idle"
              /\ endsWith(call[c].fileName, README_EXTENSIONS[i].extension) )
            => call[c].sourceLang \in README_EXTENSIONS[i].languages

\* C26: every pair of the README's example list is admitted by
\* isLanguagePairSupported in both directions, so the dialog opened for the
\* first language of a pair has the second among its targets.
C26_ReadmePairsAdmitted ==
    \A c \in AllCalls :
        AskedTargets(c)
        => \A p \in README_PAIRS :
             p[1] = call[c].sourceLang
             => /\ isLanguagePairSupported(p[1], p[2])
                /\ \E k \in 1..Len(call[c].supportedTargets) :
                     call[c].supportedTargets[k] = p[2]

CompletesGet(c) == call[c].pc = "healthGet" /\ call'[c].pc # "healthGet"

\* C27: when a health GET completes, isApiHealthy becomes true if the answer
\* has status 200 and false for any other status and for a transport error
\* (status 0 here); the call goes on to the probe or to validation (which may
\* reject the request), never to a rejection raised by the check; lastApiCheck was stamped when the GET was
\* started and is left alone when it completes.
C27_HealthyIffStatus200 ==
    [][\A c \in AllCalls :
         /\ CompletesGet(c)
            => /\ call'[c].pc \in {"probe", "post", "done"}
               /\ call'[c].pc = "probe"
                    => /\ ~isApiHealthy' /\ ~call'[c].healthCheck.isHealthy
                       /\ call'[c].healthCheck.status # 200
               /\ call'[c].pc = "post"
                    => /\ isApiHealthy' /\ call'[c].healthCheck.isHealthy
                       /\ call'[c].healthCheck.status = 200
               /\ call'[c].pc = "done"
                    => /\ isApiHealthy'
                       /\ call'[c].outcome.state = "rejected"
                       /\ call'[c].outcome.error.text
                            \in TooLargeTexts \cup {UnsupportedText}
               /\ lastApiCheck' = lastApiCheck
         /\ StartsGet(c) => lastApiCheck' = now]_vars

\* a health GET was answered 204: the health state is false and the call is
\* at the probe
C27_Witness ==
    \E c \in AllCalls :
        /\ call[c].pc = "probe" /\ call[c].gets = 1
        /\ call[c].healthCheck.status = 204
        /\ ~isApiHealthy
        /\ lastApiCheck = StartTime

\* C28 as stated: the health state changes only as checkApiHealth changes it
\* on its own: lastApiCheck when a consultation finds the last check at
\* least one caching window old, isApiHealthy when a health GET completes.
C28_OnlyCheckApiHealthWrites ==
    [][/\ isApiHealthy' # isApiHealthy => \E c \in AllCalls : CompletesGet(c)
       /\ lastApiCheck' # lastApiCheck
          => /\ ~Young
             /\ lastApiCheck' = now
             /\ \E c \in AllCalls : StartsGet(c)]_vars

\* C28 as amended: the same, except that translateCode itself resets
\* lastApiCheck when the user answers 'Check Again', so that the check it
\* then calls stamps it anew although the last check is younger than the
\* window.
C28_WritesOutsideOnlyOnCheckAgain ==
    [][/\ isApiHealthy' # isApiHealthy => \E c \in AllCalls : CompletesGet(c)
       /\ lastApiCheck' # lastApiCheck
          => /\ lastApiCheck' = now
             /\ \E c \in AllCalls :
                  /\ StartsGet(c)
                  /\ Young => (AtUnhealthyPrompt(c) /\ AnswerWith(c, "Check Again"))]_vars

\* 'Check Again' was answered one second after the failed check was started:
\* lastApiCheck has moved inside the caching window
C28_Witness ==
    \E c \in AllCalls :
        /\ call[c].pc = "healthGet" /\ call[c].gets = 2
        /\ now = StartTime + 1000
        /\ lastApiCheck = now
        /\ ~isApiHealthy

\* what the connectivity probe can return, and a call without its result
ProbeResults == {ProbeResult(ev) : ev \in ProbeEvents}
Erase(s) == [s EXCEPT !.connectionTest = NoTest]
EraseCall(e) == [e EXCEPT !.call = Erase(@)]

\* C29: apart from the stored probe result itself, no step of translateCode
\* depends on what the probe returned: the step the probe's answer triggers
\* is the same for every answer, and for every other result the probe could
\* have returned each later step (answer to the prompt, completion of a POST
\* or of a health GET, end of a delay) gives, for every input, the same
\* successor, the same health state, POSTs and delays included.
C29_ProbeDoesNotGate ==
    \A c \in AllCalls :
        LET s == call[c] IN
        /\ s.pc = "probe"
           => \A x, y \in ProbeResults :
                Erase(AfterProbe(s, x, now)) = Erase(AfterProbe(s, y, now))
        /\ \A alt \in ProbeResults :
             LET a == [s EXCEPT !.connectionTest = alt] IN
             /\ s.pc = "prompt"
                => \A answer \in Answers :
                     EraseCall(AfterAnswer(a, answer, now, lastApiCheck, isApiHealthy))
                     = EraseCall(AfterAnswer(s, answer, now, lastApiCheck, isApiHealthy))
             /\ s.pc = "post"
                => \A ev \in PostEvents \cup DeadlineEvents, jitter \in JitterValues :
                     Erase(AfterAttempt(a, ev, jitter, now))
                     = Erase(AfterAttempt(s, ev, jitter, now))
             /\ s.pc = "delay"
                => EraseCall(AfterDelay(a, now, lastApiCheck, isApiHealthy))
                   = EraseCall(AfterDelay(s, now, lastApiCheck, isApiHealthy))
             /\ s.pc = "healthGet"
                => \A ev \in HealthEvents :
                     Erase(AfterHealth([a EXCEPT !.deadline = 0], HealthResult(ev), now))
                     = Erase(AfterHealth([s EXCEPT !.deadline = 0], HealthResult(ev), now))

\* the probe reached the endpoint although the health check had failed, and
\* the call has issued its POST after 'Try Anyway'
C29_Witness ==
    \E c \in AllCalls :
        /\ call[c].pc = "post"
        /\ call[c].connectionTest.success
        /\ ~call[c].healthCheck.isHealthy
        /\ call[c].heads = 1 /\ call[c].posts = 1

\* C30: the probe never ends the call: whatever its HEAD request meets, the
\* call goes on to the prompt with a result, which is negative with a
\* message for a transport failure (status 0 here) and positive exactly for
\* a response with a status below 400.
C30_ProbeNeverThrows ==
    [][\A c \in AllCalls :
         (call[c].pc = "probe" /\ call'[c].pc # "probe")
         => LET r == call'[c].connectionTest IN
            /\ call'[c].pc = "prompt"
            /\ call'[c].outcome.state = "pending"
            /\ r.success <=> (r.status # 0 /\ r.status < 400)
            /\ r.message = IF r.status = 0
                           THEN "Connection failed: <code>"
                           ELSE "Connection successful (<status> in <responseTime>ms)"]_vars

\* the HEAD request was answered 404: the result is negative
C30_Witness ==
    \E c \in AllCalls :
        /\ call[c].pc = "prompt"
        /\ call[c].connectionTest.status = 404
        /\ ~call[c].connectionTest.success

\* an attempt of the call is started: the POST is sent and its timer armed
StartsPost(c) == call[c].pc # "post" /\ call'[c].pc = "post"
\* the attempt in flight ends in this step
EndsPost(c) == call[c].pc = "post" /\ call'[c].pc # "post"
AtDeadline(ev) == FailedWith(ev, {"ECONNABORTED", "ERR_CANCELED"})

\* C31: every POST attempt is given the deadline "start of this attempt plus
\* timeoutMs", whatever time earlier attempts, delays, the health check or
\* the prompt took; the deadline stays put while the attempt is in flight;
\* an attempt is ended by the timeout only at its own deadline.
C31_FreshDeadlinePerAttempt ==
    [][\A c \in Calls :
         /\ StartsPost(c) => call'[c].deadline = now' + timeoutMs
         /\ (call[c].pc = "post" /\ call'[c].pc = "post")
            => call'[c].deadline = call[c].deadline
         /\ (EndsPost(c) /\ AtDeadline(Last(call'[c].trace)))
            => now = call[c].deadline]_vars

\* the second attempt is in flight with a full deadline of its own, after a
\* first attempt that used up its whole deadline and a retry delay
C31_Witness ==
    \E c \in Calls :
        /\ call[c].pc = "post" /\ call[c].posts = 2
        /\ Len(call[c].trace) = 1 /\ AtDeadline(call[c].trace[1])
        /\ call[c].deadline = now + timeoutMs
        /\ now >= StartTime + timeoutMs + InnerRetryDelay

\* messages thrown only by the outer handler's branches for axios errors
OuterOnlyTexts ==
    {"The code is too large to translate. Please reduce the size and try again.",
     "Could not connect to the translation service. Please check your internet connection.",
     "Connection to the translation service was reset. Please try again.",
     "Translation service unavailable. Please try again later."}
\* what the inner try raised for the event, before any handler
Raised(ev) ==
    LET settled == AxiosSettle(ev, validateStatusPost(ev.status))
    IN  IF settled.ok THEN TryBody(settled.response) ELSE Throw(settled.error, "axios")

\* C32: when a POST attempt fails, the inner handler either schedules the
\* retry, always InnerRetryDelay (1000 ms) later, or throws a plain Error;
\* the outer handler then only prefixes that Error: the call never waits
\* another delay, never shows the timeout prompt and never ends with a
\* message of the outer handler's branches for axios errors.
C32_InnerHandlesEveryFailure ==
    [][\A c \in Calls :
         EndsPost(c) =>
           LET ev == Last(call'[c].trace)
               inner == InnerCatch(Raised(ev).error, call[c].retryCount)
           IN  /\ call'[c].pc \in {"delay", "done"}
               /\ call'[c].prompt # "unavailable"
               /\ Raised(ev).type = "throw"
                  => /\ inner.type \in {"retry", "throw"}
                     /\ inner.type = "retry"
                        => /\ inner.delay = InnerRetryDelay
                           /\ call'[c].pc = "delay"
                           /\ call'[c].wakeAt = now + InnerRetryDelay
                           /\ Last(call'[c].delays) = InnerRetryDelay
                     /\ inner.type = "throw"
                        => /\ ~inner.error.isAxios
                           /\ Rejected(c)'
                           /\ call'[c].outcome.error
                              = PlainError(inner.error.text, inner.error.wraps + 1)
                           /\ call'[c].outcome.error.text \notin OuterOnlyTexts
               /\ call'[c].pc = "delay" => Raised(ev).type = "throw"]_vars

\* with retry budget left a POST ended in a connection reset: the call
\* ended at once with the inner handler's Error, prefixed by the outer one
C32_Witness ==
    \E c \in Calls :
        /\ Done(c) /\ call[c].retryCount > 0 /\ Len(call[c].trace) = 1
        /\ FailedWith(call[c].trace[1], {"ECONNRESET"})
        /\ call[c].delays = <<>>
        /\ RejectedWith(c, {"No response received from the translation service. Please check your connection."})
        /\ call[c].outcome.error.wraps = 1

\* C33: during an outage in which every prompt is answered 'Check Again',
\* each answer restarts the call at a new health GET, stamped now although
\* the last check is younger than the caching window, with the retry budget
\* it had; the call never issues a POST and starts health GETs again and
\* again, without end.
C33_CheckAgainLoops ==
    /\ [][\A c \in Calls :
            (AtUnhealthyPrompt(c) /\ call'[c].pc # "prompt")
            => /\ StartsGet(c)
               /\ lastApiCheck' = now
               /\ call'[c].retryCount = call[c].retryCount
               /\ call'[c].posts = call[c].posts
               /\ call[c].gets < MaxCount => call'[c].gets = call[c].gets + 1]_vars
    /\ [](\A c \in Calls : call[c].posts = 0 /\ call[c].retryCount \in {0, DefaultRetryCount})
    /\ \A c \in Calls : []<><<StartsGet(c)>>_vars

\* a second health GET of the call is in flight although no time has passed
\* since its first one
C33_Witness ==
    \E c \in Calls :
        /\ call[c].pc = "healthGet" /\ call[c].gets = 2 /\ call[c].posts = 0
        /\ call[c].retryCount = DefaultRetryCount
        /\ now = StartTime /\ lastApiCheck = now

\* a health GET of another call is in flight
OtherGetInFlight(c) == \E k \in AllCalls \ {c} : call[k].pc = "healthGet"

\* C34 as stated: a call that enters checkApiHealth while another call's
\* health GET is in flight starts no GET of its own.
C34_NoGetWhileGetInFlight ==
    [][\A c \in AllCalls : OtherGetInFlight(c) => ~StartsGet(c)]_vars

\* C34 as amended: a call that consults the health monitor at its start or
\* at the start of a retry while another call's health GET is in flight
\* starts no GET and does not wait: in the same step it goes on with the
\* value isApiHealthy holds at that moment, to the probe when unhealthy and
\* to its POST when healthy, and leaves the module state alone; a call
\* re-entered by 'Check Again' starts a GET of its own all the same.
C34_ConsultDuringGetUsesCache ==
    [][\A c \in AllCalls :
         /\ (Consults(c) /\ OtherGetInFlight(c))
            => /\ ~StartsGet(c)
               /\ call'[c].gets = call[c].gets
               /\ isApiHealthy' = isApiHealthy /\ lastApiCheck' = lastApiCheck
               /\ call'[c].healthCheck.isHealthy = isApiHealthy
               /\ call'[c].pc = (IF isApiHealthy THEN "post" ELSE "probe")
         /\ (AtUnhealthyPrompt(c) /\ OtherGetInFlight(c)
               /\ call'[c].pc \notin {"prompt", "post", "done"})
            => StartsGet(c) /\ lastApiCheck' = now]_vars

\* the first health GET ever is still in flight and the other call, started
\* meanwhile, has its POST in flight
C34_Witness ==
    \E c, k \in AllCalls :
        /\ call[k].pc = "healthGet" /\ call[k].gets = 1
        /\ call[k].heads = 0 /\ call[k].posts = 0
        /\ call[c].pc = "post" /\ call[c].gets = 0 /\ call[c].heads = 0
        /\ isApiHealthy

\* the time at which the health GET in flight of the call was started
GetStart(c) == call[c].deadline - RequestTimeout

\* C35: when a health GET completes and no other is in flight, isApiHealthy
\* is the result of the check started last, the one stamped in lastApiCheck:
\* if the completing GET was started before that one, the result that one
\* cached stays.
C35_LastStartedCheckWins ==
    [][\A c \in AllCalls :
         (CompletesGet(c) /\ ~GetInFlight' /\ GetStart(c) < lastApiCheck)
         => isApiHealthy' = isApiHealthy]_vars

\* the call enters checkApiHealth: at its start, at the start of a retry or
\* on an answer to the unhealthy-service prompt that does not end it
Enters(c) == Consults(c) \/ (AtUnhealthyPrompt(c) /\ call'[c].pc \in {"healthGet", "probe"})
\* in this step the call obtains an unhealthy result, from a GET that
\* completes or from the cache
GetsUnhealthy(c) ==
    \/ CompletesGet(c) /\ ~isApiHealthy'
    \/ Enters(c) /\ ~StartsGet(c) /\ ~isApiHealthy

\* C36: a step in which a call obtains an unhealthy health result, fresh or
\* cached, sends one HEAD and nothing else; the answer to the HEAD leads to
\* the prompt without a further request, and the prompt is reached in no
\* other way; so a call that finds a failed check cached sends its HEAD
\* although it sends no GET.
C36_OneProbePerUnhealthyResult ==
    [][\A c \in Calls :
         /\ GetsUnhealthy(c)
            => /\ call'[c].pc = "probe"
               /\ call[c].heads < MaxCount => call'[c].heads = call[c].heads + 1
               /\ call'[c].posts = call[c].posts
               /\ CompletesGet(c) \/ call'[c].gets = call[c].gets
         /\ call[c].pc = "probe" /\ call'[c].pc # "probe"
            => /\ AtUnhealthyPrompt(c)'
               /\ call'[c].heads = call[c].heads
               /\ call'[c].gets = call[c].gets /\ call'[c].posts = call[c].posts
         /\ (AtUnhealthyPrompt(c)' /\ ~AtUnhealthyPrompt(c)) => call[c].pc = "probe"
         /\ call'[c].heads # call[c].heads => GetsUnhealthy(c)]_vars

\* the call is at the prompt for the second time after a failed check that
\* it found cached: two HEADs were sent and one GET
C36_Witness ==
    \E c \in Calls :
        /\ AtUnhealthyPrompt(c) /\ call[c].heads = 2 /\ call[c].gets = 1
        /\ call[c].healthCheck.message = "undefined"
        /\ Young /\ ~isApiHealthy

\* C37: the abort timer of a call is armed exactly while one of its POST
\* attempts is in flight and is due at that attempt's deadline, which has
\* not passed: it is armed when the attempt starts, with no timer of the call
\* armed at that moment, and cleared in the step in which the attempt
\* settles, so none is armed during a retry delay, a health check, a prompt
\* or after the call has ended.
C37_TimerClearedWhenAttemptSettles ==
    /\ [](\A c \in Calls :
            /\ call[c].timerArmed <=> call[c].pc = "post"
            /\ call[c].timerArmed => call[c].deadline >= now)
    /\ [][\A c \in Calls :
            /\ StartsPost(c)
               => ~call[c].timerArmed /\ call'[c].timerArmed
                  /\ call'[c].deadline = now' + timeoutMs
            /\ EndsPost(c) => call[c].timerArmed /\ ~call'[c].timerArmed]_vars

\* the first attempt has settled and the retry delay is running, or the
\* retry's own attempt is in flight, with no timer left from the first
C37_Witness ==
    \E c \in Calls :
        /\ call[c].trace # <<>> /\ call[c].delays # <<>>
        /\ \/ call[c].pc = "delay" /\ ~call[c].timerArmed
           \/ call[c].pc = "post" /\ call[c].timerArmed
              /\ call[c].deadline = now + timeoutMs

\* the call without what the cancellation token and the dialog's output hold
Uncancel(s) == [s EXCEPT !.cancelled = FALSE, !.shown = "none"]
UncancelCall(e) == [e EXCEPT !.call = Uncancel(@)]

\* C38: a call that settles with the cancellation requested shows neither a
\* document nor an error, while one that settles without it shows the
\* document or the error; requesting the cancellation changes nothing but
\* the token, and every step of translateCode (completion of a health GET,
\* of the probe or of a POST, answer to a prompt, end of a retry delay) gives
\* the same successor with the token set as without it, apart from what the
\* dialog shows.
C38_CancelOnlyHidesTheResult ==
    /\ [](\A c \in Calls :
            LET s == call[c]
                a == [s EXCEPT !.cancelled = ~s.cancelled]
            IN  /\ (Done(c) /\ s.cancelled) => s.shown = "none"
                /\ (Done(c) /\ ~s.cancelled)
                   => s.shown = IF Resolved(c) THEN "document" ELSE "error"
                /\ s.pc = "healthGet"
                   => \A ev \in HealthEvents :
                        Uncancel(AfterHealth([a EXCEPT !.deadline = 0], HealthResult(ev), now))
                        = Uncancel(AfterHealth([s EXCEPT !.deadline = 0], HealthResult(ev), now))
                /\ s.pc = "probe"
                   => \A ev \in ProbeEvents :
                        Uncancel(AfterProbe(a, ProbeResult(ev), now))
                        = Uncancel(AfterProbe(s, ProbeResult(ev), now))
                /\ s.pc = "prompt"
                   => \A answer \in Answers :
                        UncancelCall(AfterAnswer(a, answer, now, lastApiCheck, isApiHealthy))
                        = UncancelCall(AfterAnswer(s, answer, now, lastApiCheck, isApiHealthy))
                /\ s.pc = "post"
                   => \A ev \in PostEvents \cup DeadlineEvents, jitter \in JitterValues :
                        Uncancel(AfterAttempt(a, ev, jitter, now))
                        = Uncancel(AfterAttempt(s, ev, jitter, now))
                /\ s.pc = "delay"
                   => UncancelCall(AfterDelay(a, now, lastApiCheck, isApiHealthy))
                      = UncancelCall(AfterDelay(s, now, lastApiCheck, isApiHealthy)))
    /\ [][\A c \in Calls :
            /\ call'[c].cancelled # call[c].cancelled
               => /\ call'[c] = [call[c] EXCEPT !.cancelled = TRUE]
                  /\ <<now, isApiHealthy, lastApiCheck>>' = <<now, isApiHealthy, lastApiCheck>>
            /\ (call[c].cancelled /\ call[c].pc = "delay" /\ call'[c].pc # "delay")
               => call'[c].pc \in {"post", "healthGet", "probe"}]_vars

\* a call whose cancellation was requested has retried, sent its second
\* POST and resolved, and nothing is shown
C38_Witness ==
    \E c \in Calls :
        /\ Done(c) /\ call[c].cancelled /\ Resolved(c)
        /\ call[c].posts = 2 /\ call[c].delays # <<>>
        /\ call[c].shown = "none"
====
